---------------------------- MODULE Spec2Model ----------------------------
(***************************************************************************)
(* Model of the modal-explorer live keyboard input path                    *)
(* (hooks/useKeyboardPiano.ts) together with the parts of the theory       *)
(* engine, note helpers, mode catalog, keyboard layout, store and audio    *)
(* engine that it calls.                                                   *)
(***************************************************************************)
EXTENDS Integers, Sequences, FiniteSets, TLC

(***************************************************************************)
(* Bounds of the model                                                     *)
(***************************************************************************)
\* most attackNote calls that may be outstanding (not yet followed by a
\* releaseNote of their pitch) at the same time
MaxVoices == 4

\* the same bound while the mode shortcuts are in play
MaxModeVoices == 3

\* most initialize() calls in flight at the same time
MaxInitCalls == 2

\* the same bound on voices where the root and the octave change
MaxRetuneVoices == 3

\* the same bound on voices where focus changes are explored
MaxFocusVoices == 3

\* the same bound on voices where attackNote may throw
MaxFailVoices == 2

\* attackNote calls outstanding at most, and timers of clicks pending at
\* most, where the clicks of the page are followed
MaxPageVoices == 2

MaxPendingTimers == 2

(***************************************************************************)
(* lib/notes.ts                                                            *)
(***************************************************************************)
NOTE_NAMES == <<"C", "C#", "D", "D#", "E", "F", "F#", "G", "G#", "A", "A#", "B">>

\* Array.prototype.indexOf: 0-based position, -1 when absent
IndexOf(seq, x) ==
    IF \E i \in 1..Len(seq) : seq[i] = x
    THEN (CHOOSE i \in 1..Len(seq) : seq[i] = x /\ \A j \in 1..(i - 1) : seq[j] # x) - 1
    ELSE -1

\* the JavaScript remainder operator: the sign follows the dividend
JsRem(a, b) == IF a >= 0 THEN a % b ELSE 0 - ((0 - a) % b)

\* 0-based array read; a read outside the array yields undefined
ArrayAt(seq, i) == IF i >= 0 /\ i < Len(seq) THEN seq[i + 1] ELSE "undefined"

getNoteNumber(noteName, octave) == (octave + 1) * 12 + IndexOf(NOTE_NAMES, noteName)

getNoteName(midiNumber) == ArrayAt(NOTE_NAMES, JsRem(midiNumber, 12))

\* getOctave counting octaves from MIDI number 0
getOctaveFromZero(midiNumber) == midiNumber \div 12

getOctave(midiNumber) == (midiNumber \div 12) - 1

\* the frequency field (a float derived from midiNumber alone) is left out
createNote(noteName, octave) ==
    [name |-> noteName, octave |-> octave, midiNumber |-> getNoteNumber(noteName, octave)]

transposeNote(note, semitones) ==
    LET newMidiNumber == note.midiNumber + semitones
    IN  createNote(getNoteName(newMidiNumber), getOctave(newMidiNumber))

\* formatNote / toToneNotation: name followed by octave, e.g. PitchC4
toToneNotation(note) == <<note.name, note.octave>>

(***************************************************************************)
(* lib/modes.ts                                                            *)
(***************************************************************************)
ChordDef(rn, d, q, f) == [romanNumeral |-> rn, degree |-> d, quality |-> q, function |-> f]

MODES ==
    [locrian |->
        [name |-> "locrian", intervals |-> <<0, 1, 3, 5, 6, 8, 10>>, brightness |-> 1,
         commonChords |-> <<ChordDef("i dim", 1, "diminished", "tonic"),
                            ChordDef("II", 2, "major", "other"),
                            ChordDef("iii", 3, "minor", "other"),
                            ChordDef("iv", 4, "minor", "subdominant"),
                            ChordDef("bV", 5, "major", "other")>>],
     phrygian |->
        [name |-> "phrygian", intervals |-> <<0, 1, 3, 5, 7, 8, 10>>, brightness |-> 2,
         commonChords |-> <<ChordDef("i", 1, "minor", "tonic"),
                            ChordDef("bII", 2, "major", "other"),
                            ChordDef("bIII", 3, "major", "other"),
                            ChordDef("iv", 4, "minor", "subdominant"),
                            ChordDef("v dim", 5, "diminished", "dominant"),
                            ChordDef("bVI", 6, "major", "subdominant"),
                            ChordDef("bvii", 7, "minor", "other")>>],
     aeolian |->
        [name |-> "aeolian", intervals |-> <<0, 2, 3, 5, 7, 8, 10>>, brightness |-> 3,
         commonChords |-> <<ChordDef("i", 1, "minor", "tonic"),
                            ChordDef("ii dim", 2, "diminished", "other"),
                            ChordDef("bIII", 3, "major", "other"),
                            ChordDef("iv", 4, "minor", "subdominant"),
                            ChordDef("v", 5, "minor", "dominant"),
                            ChordDef("bVI", 6, "major", "subdominant"),
                            ChordDef("bVII", 7, "major", "other")>>],
     dorian |->
        [name |-> "dorian", intervals |-> <<0, 2, 3, 5, 7, 9, 10>>, brightness |-> 4,
         commonChords |-> <<ChordDef("i", 1, "minor", "tonic"),
                            ChordDef("ii", 2, "minor", "other"),
                            ChordDef("bIII", 3, "major", "other"),
                            ChordDef("IV", 4, "major", "subdominant"),
                            ChordDef("v", 5, "minor", "dominant"),
                            ChordDef("vi dim", 6, "diminished", "other"),
                            ChordDef("bVII", 7, "major", "other")>>],
     mixolydian |->
        [name |-> "mixolydian", intervals |-> <<0, 2, 4, 5, 7, 9, 10>>, brightness |-> 5,
         commonChords |-> <<ChordDef("I", 1, "major", "tonic"),
                            ChordDef("ii", 2, "minor", "other"),
                            ChordDef("iii dim", 3, "diminished", "other"),
                            ChordDef("IV", 4, "major", "subdominant"),
                            ChordDef("v", 5, "minor", "dominant"),
                            ChordDef("vi", 6, "minor", "other"),
                            ChordDef("bVII", 7, "major", "other")>>],
     ionian |->
        [name |-> "ionian", intervals |-> <<0, 2, 4, 5, 7, 9, 11>>, brightness |-> 6,
         commonChords |-> <<ChordDef("I", 1, "major", "tonic"),
                            ChordDef("ii", 2, "minor", "other"),
                            ChordDef("iii", 3, "minor", "other"),
                            ChordDef("IV", 4, "major", "subdominant"),
                            ChordDef("V", 5, "major", "dominant"),
                            ChordDef("vi", 6, "minor", "other"),
                            ChordDef("vii dim", 7, "diminished", "other")>>],
     lydian |->
        [name |-> "lydian", intervals |-> <<0, 2, 4, 6, 7, 9, 11>>, brightness |-> 7,
         commonChords |-> <<ChordDef("I", 1, "major", "tonic"),
                            ChordDef("II", 2, "major", "other"),
                            ChordDef("iii", 3, "minor", "other"),
                            ChordDef("#iv dim", 4, "diminished", "subdominant"),
                            ChordDef("V", 5, "major", "dominant"),
                            ChordDef("vi", 6, "minor", "other"),
                            ChordDef("vii", 7, "minor", "other")>>]]

\* Object.keys(MODES): the mode names in the order MODES declares them
ModeKeys == <<"locrian", "phrygian", "aeolian", "dorian", "mixolydian", "ionian", "lydian">>

getMode(name) == MODES[name]

\* Object.values(MODES): the modes in the order MODES declares them
ModeValues == [i \in 1..Len(ModeKeys) |-> MODES[ModeKeys[i]]]

\* the modes sorted with the comparator b.brightness - a.brightness
RECURSIVE sortByBrightnessDescending(_)
sortByBrightnessDescending(list) ==
    IF list = <<>> THEN <<>>
    ELSE LET most == CHOOSE x \in {list[i].brightness : i \in DOMAIN list} :
                         \A i \in DOMAIN list : list[i].brightness <= x
         IN  SelectSeq(list, LAMBDA mode : mode.brightness = most)
                 \o sortByBrightnessDescending(SelectSeq(list, LAMBDA mode : mode.brightness # most))

\* Array.prototype.sort with the comparator a.brightness - b.brightness:
\* ascending by brightness, modes of equal brightness staying in their order
RECURSIVE sortByBrightness(_)
sortByBrightness(list) ==
    IF list = <<>> THEN <<>>
    ELSE LET least == CHOOSE x \in {list[i].brightness : i \in DOMAIN list} :
                          \A i \in DOMAIN list : list[i].brightness >= x
         IN  SelectSeq(list, LAMBDA mode : mode.brightness = least)
                 \o sortByBrightness(SelectSeq(list, LAMBDA mode : mode.brightness # least))

getModesByBrightness == sortByBrightness(ModeValues)

\* the modes in the order of the degrees of the major scale they start from
getModesByTraditionalOrder ==
    LET traditionalOrder == <<"ionian", "dorian", "phrygian", "lydian",
                              "mixolydian", "aeolian", "locrian">>
    IN  [i \in 1..Len(traditionalOrder) |-> MODES[traditionalOrder[i]]]

(***************************************************************************)
(* lib/theory-engine.ts                                                    *)
(***************************************************************************)
generateScale(root, mode, octave) ==
    LET modeData == getMode(mode)
        rootNote == createNote(root, octave)
    IN  [root   |-> root,
         mode   |-> modeData,
         notes  |-> [i \in 1..Len(modeData.intervals) |->
                        transposeNote(rootNote, modeData.intervals[i])],
         octave |-> octave]

\* the triads with every chord quality read as major
getChordIntervalsMajor(quality) ==
    CASE quality \in {"major", "minor", "diminished", "augmented"} -> <<0, 4, 7>>
      [] OTHER -> <<0, 4, 7, 11>>

getChordIntervals(quality) ==
    CASE quality = "major"           -> <<0, 4, 7>>
      [] quality = "minor"           -> <<0, 3, 7>>
      [] quality = "diminished"      -> <<0, 3, 6>>
      [] quality = "augmented"       -> <<0, 4, 8>>
      [] quality = "dominant7"       -> <<0, 4, 7, 10>>
      [] quality = "major7"          -> <<0, 4, 7, 11>>
      [] quality = "minor7"          -> <<0, 3, 7, 10>>
      [] quality = "halfDiminished7" -> <<0, 3, 6, 10>>
      [] quality = "diminished7"     -> <<0, 3, 6, 9>>

buildChord(root, quality) ==
    LET intervals == getChordIntervals(quality)
    IN  [root    |-> root,
         quality |-> quality,
         notes   |-> [i \in 1..Len(intervals) |-> transposeNote(root, intervals[i])]]

\* generateDiatonicChords building every chord on the first note of the scale
generateDiatonicChordsOnTonic(root, mode, octave) ==
    LET scale    == generateScale(root, mode, octave)
        modeData == getMode(mode)
    IN  [i \in 1..Len(modeData.commonChords) |->
            LET chordDef    == modeData.commonChords[i]
                chordRoot   == scale.notes[1]
                chord       == buildChord(chordRoot, chordDef.quality)
            IN  [root         |-> chord.root,
                 quality      |-> chord.quality,
                 notes        |-> chord.notes,
                 romanNumeral |-> chordDef.romanNumeral,
                 function     |-> chordDef.function]]

\* one chord per chord definition of the mode, in the order of the definitions
generateDiatonicChords(root, mode, octave) ==
    LET scale    == generateScale(root, mode, octave)
        modeData == getMode(mode)
    IN  [i \in 1..Len(modeData.commonChords) |->
            LET chordDef    == modeData.commonChords[i]
                degreeIndex == chordDef.degree - 1
                chordRoot   == scale.notes[degreeIndex + 1]
                chord       == buildChord(chordRoot, chordDef.quality)
            IN  [root         |-> chord.root,
                 quality      |-> chord.quality,
                 notes        |-> chord.notes,
                 romanNumeral |-> chordDef.romanNumeral,
                 function     |-> chordDef.function]]

\* the value buildChordFromDegree returns when the mode lists no chord for the degree
NullChord == [root |-> "null", quality |-> "null", notes |-> <<>>]

\* buildChordFromDegree building every chord on the first note of the scale
buildChordOnTonic(root, mode, degree, octave) ==
    LET scale == generateScale(root, mode, octave)
        defs  == getMode(mode).commonChords
        found == {i \in 1..Len(defs) : defs[i].degree = degree}
    IN  IF found = {} THEN NullChord
        ELSE LET chordDef == defs[CHOOSE i \in found : \A j \in found : i <= j]
                 chord    == buildChord(scale.notes[1], chordDef.quality)
             IN  [root         |-> chord.root,
                  quality      |-> chord.quality,
                  notes        |-> chord.notes,
                  romanNumeral |-> chordDef.romanNumeral,
                  function     |-> chordDef.function]

buildChordFromDegree(root, mode, degree, octave) ==
    LET scale == generateScale(root, mode, octave)
        defs  == getMode(mode).commonChords
        found == {i \in 1..Len(defs) : defs[i].degree = degree}
    IN  IF found = {} THEN NullChord
        ELSE LET chordDef == defs[CHOOSE i \in found : \A j \in found : i <= j]
                 chord    == buildChord(scale.notes[degree], chordDef.quality)
             IN  [root         |-> chord.root,
                  quality      |-> chord.quality,
                  notes        |-> chord.notes,
                  romanNumeral |-> chordDef.romanNumeral,
                  function     |-> chordDef.function]

\* a score of analyzeModeFromNotes.  The code computes matching / total and
\* adds 0.1 when the quotient is 1; all scores of one call have the same
\* total, so a score is kept here as its multiple by 10 * total, an integer:
\* 10 * matching, plus total for the bonus of a full match
Score(matching, total) ==
    IF matching = total THEN 10 * matching + total ELSE 10 * matching

\* Array.prototype.sort with the comparator b.score - a.score: descending by
\* score, entries of equal score staying in their order
RECURSIVE sortAscending(_)
sortAscending(entries) ==
    IF entries = <<>> THEN <<>>
    ELSE LET least == CHOOSE x \in {entries[i].score : i \in DOMAIN entries} :
                          \A i \in DOMAIN entries : entries[i].score >= x
         IN  SelectSeq(entries, LAMBDA e : e.score = least)
                 \o sortAscending(SelectSeq(entries, LAMBDA e : e.score # least))

RECURSIVE sortDescending(_)
sortDescending(entries) ==
    IF entries = <<>> THEN <<>>
    ELSE LET top == CHOOSE x \in {entries[i].score : i \in DOMAIN entries} :
                        \A i \in DOMAIN entries : entries[i].score <= x
         IN  SelectSeq(entries, LAMBDA e : e.score = top)
                 \o sortDescending(SelectSeq(entries, LAMBDA e : e.score # top))

\* the filter that keeps everything
keepAll(self) == self

\* filter((mode, index, self) => self.indexOf(mode) === index)
RECURSIVE keepFirstOccurrences(_)
keepFirstOccurrences(self) ==
    IF self = <<>> THEN <<>>
    ELSE LET last == self[Len(self)]
             rest == SubSeq(self, 1, Len(self) - 1)
         IN  IF IndexOf(self, last) = Len(self) - 1
             THEN Append(keepFirstOccurrences(rest), last)
             ELSE keepFirstOccurrences(rest)

\* Array.prototype.slice(0, end)
sliceFromStart(seq, end) == SubSeq(seq, 1, IF Len(seq) < end THEN Len(seq) ELSE end)

\* notes: a non-empty sequence of notes; possibleRoot: a note name or
\* "undefined".  uniqueNotes is an array without repetitions of which only
\* the length and the membership of its elements are used: a set here.
analyzeModeFromNotes(notes, possibleRoot) ==
    LET uniqueNotes == {JsRem(notes[i].midiNumber, 12) : i \in DOMAIN notes}
        rootsToTest == IF possibleRoot # "undefined" THEN <<possibleRoot>> ELSE NOTE_NAMES
        scored(modeName, root) ==
            LET scale         == generateScale(root, modeName, 4)
                scaleNotes    == {JsRem(scale.notes[i].midiNumber, 12) :
                                     i \in DOMAIN scale.notes}
                matchingNotes == Cardinality(uniqueNotes \cap scaleNotes)
            IN  [mode |-> modeName, score |-> Score(matchingNotes, Cardinality(uniqueNotes))]
        perMode(m) == LET RECURSIVE push(_)
                          push(r) == IF r = 0 THEN <<>>
                                     ELSE Append(push(r - 1), scored(ModeKeys[m], rootsToTest[r]))
                      IN  push(Len(rootsToTest))
        RECURSIVE allModes(_)
        allModes(m) == IF m = 0 THEN <<>> ELSE allModes(m - 1) \o perMode(m)
        modeScores == allModes(Len(ModeKeys))
        sorted     == sortDescending(modeScores)
        names      == [i \in DOMAIN sorted |-> sorted[i].mode]
    IN  sliceFromStart(keepFirstOccurrences(names), 3)

(***************************************************************************)
(* lib/keyboard-mappings.ts                                                *)
(***************************************************************************)
Mapping(k, d, o) == [key |-> k, scaleDegree |-> d, octaveOffset |-> o]

SCALE_DEGREE_LAYOUT ==
    [type       |-> "scaleDegree",
     mappings   |-> <<Mapping("q", 1, 1), Mapping("w", 2, 1), Mapping("e", 3, 1),
                      Mapping("r", 4, 1), Mapping("t", 5, 1), Mapping("y", 6, 1),
                      Mapping("u", 7, 1), Mapping("i", 1, 2),
                      Mapping("a", 1, 0), Mapping("s", 2, 0), Mapping("d", 3, 0),
                      Mapping("f", 4, 0), Mapping("g", 5, 0), Mapping("h", 6, 0),
                      Mapping("j", 7, 0), Mapping("k", 1, 1),
                      Mapping("z", 1, -1), Mapping("x", 2, -1), Mapping("c", 3, -1),
                      Mapping("v", 4, -1), Mapping("b", 5, -1), Mapping("n", 6, -1),
                      Mapping("m", 7, -1), Mapping(",", 1, 0)>>,
     toggleKey  |-> "backtick",
     sustainKey |-> " ",
     helpKey    |-> "/"]

CHROMATIC_LAYOUT ==
    [type       |-> "chromatic",
     mappings   |-> <<>>,
     toggleKey  |-> "backtick",
     sustainKey |-> " ",
     helpKey    |-> "/"]

getKeyboardLayout(type) ==
    IF type = "scaleDegree" THEN SCALE_DEGREE_LAYOUT ELSE CHROMATIC_LAYOUT

\* the result of Array.prototype.find when no mapping matches
NoMapping == Mapping("undefined", 0, 0)

\* String.prototype.toLowerCase on the key values the events below carry
toLowerCase(s) ==
    CASE s = "A" -> "a"
      [] s = "D" -> "d"
      [] s = "K" -> "k"
      [] s = "S" -> "s"
      [] OTHER   -> s

findScaleDegreeMapping(key, layout) ==
    LET ms    == layout.mappings
        found == {i \in 1..Len(ms) : ms[i].key = toLowerCase(key)}
    IN  IF found = {} THEN NoMapping
        ELSE ms[CHOOSE i \in found : \A j \in found : i <= j]

UI_NAVIGATION_KEYS ==
    {"Tab", "Enter", "Escape", "ArrowLeft", "ArrowRight", "Home", "End", "PageUp", "PageDown"}

(***************************************************************************)
(* Keyboard events.  A physical key is named by its event.code, written    *)
(* as the pair (prefix, rest), KeyA being (Key, A).  event.key is what the *)
(* platform reports for the key under the modifiers held: with Alt held it *)
(* is either the plain character or the special character of the platform (the *)
(* case codeToKey exists for).                                             *)
(***************************************************************************)
KeyA      == <<"Key", "A">>
KeyD      == <<"Key", "D">>
Comma     == <<"Comma", "">>
Space     == <<"Space", "">>
Backquote == <<"Backquote", "">>

\* the layout keys the model plays: the chord on "a" contains the pitch of "d"
PlayedCodes == {KeyA, KeyD}

\* the layout keys played where the pedal stays up: "a" and "," are both the
\* root in the base octave
SamePitchCodes == {KeyA, Comma, KeyD}

PlainKey(code) ==
    CASE code[1] = "Key"   -> toLowerCase(code[2])
      [] code[1] = "Digit" -> code[2]
      [] code = Comma      -> ","
      [] code = Space      -> " "
      [] code = Backquote  -> "backtick"
      [] OTHER             -> code[1]

\* the special character a platform may report while Alt is held
AltChar(code) == "alt+" \o PlainKey(code)

EventKeys(code, altKey) ==
    IF altKey THEN {PlainKey(code), AltChar(code)} ELSE {PlainKey(code)}

KeyEvent(type, code, key, altKey) ==
    [type |-> type, code |-> code, key |-> key, altKey |-> altKey,
     shiftKey |-> FALSE, ctrlKey |-> FALSE, metaKey |-> FALSE]

Digit(d) == <<"Digit", d>>

Slash == <<"Slash", "">>

\* the character a digit key reports while Shift is held
ShiftChar(code) == "shift+" \o code[2]

\* the mode shortcuts the model presses: Shift+1 (ionian) and Shift+7 (locrian)
ShortcutDigits == {"1", "7"}

(***************************************************************************)
(* Finite maps (Map<K, V>) and bags of sink calls                          *)
(***************************************************************************)
EmptyMap == [x \in {} |-> 0]

MapSet(m, k, v) == [x \in (DOMAIN m) \cup {k} |-> IF x = k THEN v ELSE m[x]]

MapDelete(m, k) == [x \in (DOMAIN m) \ {k} |-> m[x]]

\* the keys of a Map or the members of a Set as the sequence forEach visits
RECURSIVE IterationOrder(_)
IterationOrder(S) ==
    IF S = {} THEN <<>>
    ELSE LET x == CHOOSE y \in S : \A z \in S : y <= z
         IN  <<x>> \o IterationOrder(S \ {x})

RECURSIVE CountIn(_, _)
CountIn(calls, x) ==
    IF calls = <<>> THEN 0
    ELSE (IF Head(calls) = x THEN 1 ELSE 0) + CountIn(Tail(calls), x)

\* a sequence of calls as a bag: argument |-> number of calls
BagOf(calls) ==
    [x \in {calls[i] : i \in 1..Len(calls)} |-> CountIn(calls, x)]

BagSize(b) ==
    LET RECURSIVE Sum(_)
        Sum(S) == IF S = {} THEN 0
                  ELSE LET x == CHOOSE y \in S : TRUE IN b[x] + Sum(S \ {x})
    IN  Sum(DOMAIN b)

(***************************************************************************)
(* State                                                                   *)
(***************************************************************************)
VARIABLES
    \* lib/store.ts (activeComputerKeys and the note trails are display state
    \* that no handler reads; they are left out)
    keyboardEnabled, sustainPedal, currentMode, currentRoot, currentOctave,
    \* the highlighted MIDI numbers of the store, and whether the behaviour
    \* follows them: no handler reads the highlights, and the specifications
    \* about tracking and sound leave them empty
    activeNotes, highlightsFollowed,
    \* components/PianoKeyboard.tsx: per MIDI number the pending note-off
    \* timers of its clicks, and whether the click listener that initializes
    \* the audio is still registered
    noteOffTimers, initAudioListening,
    \* the refs of useKeyboardPiano
    pressedKeys, sustainedNotes, heldNotes, keyToNotes,
    \* lib/audio-engine.ts: the synth exists, isInitialized, initialize() calls
    \* waiting for Tone.start() and for reverb.ready, the envelope in force
    synth, isInitialized, toneStarting, reverbLoading, envelope,
    \* per pitch, the attackNote calls the synth took since its last releaseNote
    strikes,
    \* the environment: keys physically down, focus inside an input element
    physDown, inInput,
    \* a call of the theory engine (lib/theory-engine.ts): the function called
    \* with its arguments, and what it returned
    theoryCall, theoryResult,
    \* the pitches of the attackNote and of the releaseNote calls made by the
    \* last handler that ran, in call order
    lastCalls

storeVars  == <<keyboardEnabled, sustainPedal, currentMode, currentRoot, currentOctave>>
refVars    == <<pressedKeys, sustainedNotes, heldNotes, keyToNotes>>
engineVars == <<synth, isInitialized, toneStarting, reverbLoading, envelope, strikes>>
envVars    == <<physDown, inInput>>
theoryVars == <<theoryCall, theoryResult>>
pageVars   == <<activeNotes, highlightsFollowed, noteOffTimers, initAudioListening>>
vars       == <<storeVars, refVars, engineVars, envVars, lastCalls, theoryVars, pageVars>>

keyboardLayout == "scaleDegree"

\* the state a handler reads and writes, and the engine calls it makes
Program ==
    [keyboardEnabled |-> keyboardEnabled,
     sustainPedal    |-> sustainPedal,
     currentMode     |-> currentMode,
     pressedKeys     |-> pressedKeys,
     sustainedNotes  |-> sustainedNotes,
     heldNotes       |-> heldNotes,
     keyToNotes      |-> keyToNotes,
     activeNotes     |-> activeNotes,
     calls           |-> <<>>,
     \* whether the handler called event.preventDefault()
     prevented       |-> FALSE,
     \* the attackNote call of the handler that throws (0: none does), and
     \* whether the handler was left by that exception
     throwAt         |-> 0,
     thrown          |-> FALSE]

Call(op, note) == [op |-> op, note |-> note]

NoNote == <<"", 0>>

NoCalls == [attacks |-> <<>>, releases |-> <<>>]

(***************************************************************************)
(* lib/audio-engine.ts                                                     *)
(***************************************************************************)
Engine ==
    [synth         |-> synth,
     isInitialized |-> isInitialized,
     toneStarting  |-> toneStarting,
     reverbLoading |-> reverbLoading,
     envelope      |-> envelope,
     strikes       |-> strikes]

StrikesOf(s, n) == IF n \in DOMAIN s THEN s[n] ELSE 0

\* triggerAttack on the synth; nothing without a synth
attackNote(e, note) ==
    IF ~e.synth THEN e
    ELSE [e EXCEPT !.strikes = MapSet(e.strikes, toToneNotation(note),
                                      StrikesOf(e.strikes, toToneNotation(note)) + 1)]

\* triggerRelease on the synth; nothing without a synth
releaseNote(e, note) ==
    IF ~e.synth THEN e
    ELSE [e EXCEPT !.strikes = MapDelete(e.strikes, toToneNotation(note))]

enableSustain(e) == IF ~e.synth THEN e ELSE [e EXCEPT !.envelope = "sustain"]

disableSustain(e) == IF ~e.synth THEN e ELSE [e EXCEPT !.envelope = "natural"]

\* initialize() up to its first await
initialize(e) ==
    IF e.isInitialized THEN e ELSE [e EXCEPT !.toneStarting = e.toneStarting + 1]

EngineCall(e, call) ==
    CASE call.op = "attackNote"     -> attackNote(e, call.note)
      [] call.op = "releaseNote"    -> releaseNote(e, call.note)
      [] call.op = "enableSustain"  -> enableSustain(e)
      [] call.op = "disableSustain" -> disableSustain(e)
      [] call.op = "initialize"     -> initialize(e)

RECURSIVE EngineCalls(_, _)
EngineCalls(e, calls) ==
    IF calls = <<>> THEN e ELSE EngineCalls(EngineCall(e, Head(calls)), Tail(calls))

\* the notes given to the calls of one kind, in call order
NotesOf(calls, op) ==
    LET RECURSIVE Pick(_)
        Pick(cs) == IF cs = <<>> THEN <<>>
                    ELSE (IF Head(cs).op = op THEN <<toToneNotation(Head(cs).note)>> ELSE <<>>)
                         \o Pick(Tail(cs))
    IN  Pick(calls)

(***************************************************************************)
(* hooks/useKeyboardPiano.ts                                               *)
(***************************************************************************)
\* strikeNote without the heldNotes test of the pedal-up branch
strikeNoteAlways(p, note) ==
    IF p.sustainPedal
    THEN [p EXCEPT !.calls = Append(@, Call("attackNote", note)),
                   !.sustainedNotes = MapSet(@, note.midiNumber, note),
                   !.activeNotes = @ \cup {note.midiNumber}]
    ELSE [p EXCEPT !.calls = Append(@, Call("attackNote", note)),
                   !.heldNotes = MapSet(@, note.midiNumber, note),
                   !.activeNotes = @ \cup {note.midiNumber}]

\* strikeNote with the pedal-down branch attacking a pitch only once
strikeNoteOnce(p, note) ==
    IF p.sustainPedal
    THEN IF note.midiNumber \notin DOMAIN p.sustainedNotes
         THEN [p EXCEPT !.calls = Append(@, Call("attackNote", note)),
                        !.sustainedNotes = MapSet(@, note.midiNumber, note),
                        !.activeNotes = @ \cup {note.midiNumber}]
         ELSE [p EXCEPT !.activeNotes = @ \cup {note.midiNumber}]
    ELSE IF note.midiNumber \notin DOMAIN p.heldNotes
         THEN [p EXCEPT !.calls = Append(@, Call("attackNote", note)),
                        !.heldNotes = MapSet(@, note.midiNumber, note),
                        !.activeNotes = @ \cup {note.midiNumber}]
         ELSE [p EXCEPT !.activeNotes = @ \cup {note.midiNumber}]

\* the body run for one note of a key press (chord note or single note);
\* addActiveNote ends it in either branch
strikeNote(p, note) ==
    IF p.sustainPedal
    THEN [p EXCEPT !.calls = Append(@, Call("attackNote", note)),
                   !.sustainedNotes = MapSet(@, note.midiNumber, note),
                   !.activeNotes = @ \cup {note.midiNumber}]
    ELSE IF note.midiNumber \notin DOMAIN p.heldNotes
         THEN [p EXCEPT !.calls = Append(@, Call("attackNote", note)),
                        !.heldNotes = MapSet(@, note.midiNumber, note),
                        !.activeNotes = @ \cup {note.midiNumber}]
         ELSE [p EXCEPT !.activeNotes = @ \cup {note.midiNumber}]

\* the loop over the notes of a key press.  attackNote is called before the
\* note is put into sustainedNotes or heldNotes and nothing catches what it
\* throws: the throwing call ends the loop and the handler, and the statements
\* after it do not run
RECURSIVE strikeNotes(_, _)
strikeNotes(p, notes) ==
    IF notes = <<>> \/ p.thrown THEN p
    ELSE LET struck == strikeNote(p, Head(notes))
         IN  IF /\ struck.calls # p.calls
                /\ Len(NotesOf(struck.calls, "attackNote")) = p.throwAt
             THEN [p EXCEPT !.thrown = TRUE]
             ELSE strikeNotes(struck, Tail(notes))

\* the notes a scale degree resolves to: the chord of the degree, or its scale note
resolveNotes(scaleDegree, targetOctave, isChord, mode) ==
    IF isChord
    THEN buildChordFromDegree(currentRoot, mode, scaleDegree, targetOctave).notes
    ELSE LET scale     == generateScale(currentRoot, mode, targetOctave)
             noteIndex == scaleDegree - 1
         IN  IF noteIndex >= 0 /\ noteIndex < Len(scale.notes)
             THEN <<scale.notes[noteIndex + 1]>>
             ELSE <<>>

playScaleDegree(p, scaleDegree, octaveOffset, isChord, computerKey) ==
    IF ~isInitialized THEN p
    ELSE LET notes       == resolveNotes(scaleDegree, currentOctave + octaveOffset,
                                         isChord, p.currentMode)
             played      == strikeNotes(p, notes)
             playedNotes == {notes[i].midiNumber : i \in 1..Len(notes)}
         IN  IF played.thrown THEN played
             ELSE IF playedNotes # {}
             THEN [played EXCEPT !.keyToNotes = MapSet(@, computerKey, playedNotes)]
             ELSE played

\* releaseTracked without the sustainedNotes test
releaseTrackedAny(r, midiNumber) ==
    IF midiNumber \in DOMAIN r.p.heldNotes
    THEN [r EXCEPT !.p = [r.p EXCEPT !.calls = Append(@, Call("releaseNote",
                                                             r.p.heldNotes[midiNumber])),
                                     !.heldNotes = MapDelete(@, midiNumber),
                                     !.activeNotes = @ \ {midiNumber}]]
    ELSE [r EXCEPT !.p = [r.p EXCEPT !.activeNotes = @ \ {midiNumber}]]

\* releaseTracked without the releaseNote call
releaseTrackedSilently(r, midiNumber) ==
    IF midiNumber \in DOMAIN r.p.sustainedNotes
    THEN [r EXCEPT !.anySustained = TRUE]
    ELSE IF midiNumber \in DOMAIN r.p.heldNotes
         THEN [r EXCEPT !.p = [r.p EXCEPT !.heldNotes = MapDelete(@, midiNumber),
                                          !.activeNotes = @ \ {midiNumber}]]
         ELSE [r EXCEPT !.p = [r.p EXCEPT !.activeNotes = @ \ {midiNumber}]]

\* releaseTracked without heldNotes.delete
releaseTrackedKeep(r, midiNumber) ==
    IF midiNumber \in DOMAIN r.p.sustainedNotes
    THEN [r EXCEPT !.anySustained = TRUE]
    ELSE IF midiNumber \in DOMAIN r.p.heldNotes
         THEN [r EXCEPT !.p = [r.p EXCEPT !.calls = Append(@, Call("releaseNote",
                                                                  r.p.heldNotes[midiNumber])),
                                          !.activeNotes = @ \ {midiNumber}]]
         ELSE [r EXCEPT !.p = [r.p EXCEPT !.activeNotes = @ \ {midiNumber}]]

\* the body run for one tracked MIDI number of a released key; r.anySustained
\* collects whether any of them was sustained.  removeActiveNote ends it for
\* a number that is not sustained, held or not
releaseTracked(r, midiNumber) ==
    IF midiNumber \in DOMAIN r.p.sustainedNotes
    THEN [r EXCEPT !.anySustained = TRUE]
    ELSE IF midiNumber \in DOMAIN r.p.heldNotes
         THEN [r EXCEPT !.p = [r.p EXCEPT !.calls = Append(@, Call("releaseNote",
                                                                  r.p.heldNotes[midiNumber])),
                                          !.heldNotes = MapDelete(@, midiNumber),
                                          !.activeNotes = @ \ {midiNumber}]]
         ELSE [r EXCEPT !.p = [r.p EXCEPT !.activeNotes = @ \ {midiNumber}]]

\* releaseAllTracked stopping after the first tracked MIDI number
releaseFirstTracked(r, midiNumbers) ==
    IF midiNumbers = <<>> THEN r ELSE releaseTracked(r, Head(midiNumbers))

RECURSIVE releaseAllTracked(_, _)
releaseAllTracked(r, midiNumbers) ==
    IF midiNumbers = <<>> THEN r
    ELSE releaseAllTracked(releaseTracked(r, Head(midiNumbers)), Tail(midiNumbers))

\* stopScaleDegree resolving the degree again whatever was tracked for the key
stopScaleDegreeByDegree(p, scaleDegree, octaveOffset, computerKey) ==
    LET notes == resolveNotes(scaleDegree, currentOctave + octaveOffset,
                              FALSE, p.currentMode)
    IN  IF notes = <<>> THEN p
        ELSE LET note == notes[1]
             IN  IF note.midiNumber \in DOMAIN p.sustainedNotes THEN p
                 ELSE IF note.midiNumber \in DOMAIN p.heldNotes
                      THEN [p EXCEPT !.calls = Append(@, Call("releaseNote", note)),
                                     !.heldNotes = MapDelete(@, note.midiNumber),
                                     !.activeNotes = @ \ {note.midiNumber},
                                     !.keyToNotes = MapDelete(@, computerKey)]
                      ELSE [p EXCEPT !.activeNotes = @ \ {note.midiNumber},
                                     !.keyToNotes = MapDelete(@, computerKey)]

stopScaleDegree(p, scaleDegree, octaveOffset, computerKey) ==
    IF computerKey \in DOMAIN p.keyToNotes
    THEN LET r == releaseAllTracked([p |-> p, anySustained |-> FALSE],
                                    IterationOrder(p.keyToNotes[computerKey]))
         IN  IF ~r.anySustained
             THEN [r.p EXCEPT !.keyToNotes = MapDelete(@, computerKey)]
             ELSE r.p
    ELSE \* no tracking for the key: resolve the degree again
         LET notes == resolveNotes(scaleDegree, currentOctave + octaveOffset,
                                   FALSE, p.currentMode)
         IN  IF notes = <<>> THEN p
             ELSE LET note == notes[1]
                  IN  IF note.midiNumber \in DOMAIN p.sustainedNotes THEN p
                      ELSE IF note.midiNumber \in DOMAIN p.heldNotes
                           THEN [p EXCEPT !.calls = Append(@, Call("releaseNote", note)),
                                          !.heldNotes = MapDelete(@, note.midiNumber),
                                          !.activeNotes = @ \ {note.midiNumber}]
                           ELSE [p EXCEPT !.activeNotes = @ \ {note.midiNumber}]

\* Helper of the hook: event.code to the layout character, null when it has none
codeToKey(code) ==
    CASE code[1] = "Key"   -> toLowerCase(code[2])
      [] code[1] = "Digit" -> code[2]
      [] code = Comma      -> ","
      [] code = Space      -> " "
      [] OTHER             -> "null"

lookupKeyOf(event) ==
    LET key == toLowerCase(event.key)
    IN  IF event.altKey
        THEN (IF codeToKey(event.code) # "null" THEN codeToKey(event.code) ELSE key)
        ELSE key

\* releaseEverything without the loop over heldNotes
releaseSustainedOnly(p) ==
    LET sus == IterationOrder(DOMAIN p.sustainedNotes)
    IN  [i \in 1..Len(sus) |-> Call("releaseNote", p.sustainedNotes[sus[i]])]

\* releaseNote for every sustained note, then for every held note
releaseEverything(p) ==
    LET sus  == IterationOrder(DOMAIN p.sustainedNotes)
        held == IterationOrder(DOMAIN p.heldNotes)
    IN  [i \in 1..Len(sus) |-> Call("releaseNote", p.sustainedNotes[sus[i]])]
        \o [i \in 1..Len(held) |-> Call("releaseNote", p.heldNotes[held[i]])]

\* disableCleanup clearing the collections without releasing their notes
disableWithoutRelease(p) ==
    IF p.keyboardEnabled THEN p
    ELSE [p EXCEPT !.calls = @ \o <<Call("disableSustain", NoNote)>>,
                   !.pressedKeys = {},
                   !.sustainedNotes = EmptyMap,
                   !.heldNotes = EmptyMap,
                   !.keyToNotes = EmptyMap]

\* the effect that runs when keyboardEnabled has become false; it makes no
\* removeActiveNote call
disableCleanup(p) ==
    IF p.keyboardEnabled THEN p
    ELSE [p EXCEPT !.calls = @ \o <<Call("disableSustain", NoNote)>> \o releaseEverything(p),
                   !.pressedKeys = {},
                   !.sustainedNotes = EmptyMap,
                   !.heldNotes = EmptyMap,
                   !.keyToNotes = EmptyMap]

\* store.toggleKeyboard, followed by the effects of the render it causes
toggleKeyboard(p) ==
    disableCleanup([p EXCEPT !.keyboardEnabled = ~p.keyboardEnabled])

\* parseInt of a digit character
parseInt(digit) ==
    CASE digit = "0" -> 0 [] digit = "1" -> 1 [] digit = "2" -> 2 [] digit = "3" -> 3
      [] digit = "4" -> 4 [] digit = "5" -> 5 [] digit = "6" -> 6 [] digit = "7" -> 7
      [] digit = "8" -> 8 [] digit = "9" -> 9

\* the modes ordered from darkest to brightest
modesByBrightness ==
    <<"locrian", "phrygian", "aeolian", "dorian", "mixolydian", "ionian", "lydian">>

\* the modes array of the Shift+digit shortcut
modes == <<"ionian", "dorian", "phrygian", "lydian", "mixolydian", "aeolian", "locrian">>

\* handleKeyDown after its two pass-through tests: the toggle, help and mode
\* shortcuts, then the keys of performance mode
dispatchKeyDown(p, event) ==
    LET key    == toLowerCase(event.key)
        layout == getKeyboardLayout(keyboardLayout)
    IN  IF key = layout.toggleKey
        THEN toggleKeyboard(
                 IF ~p.keyboardEnabled /\ ~isInitialized
                 THEN [p EXCEPT !.prevented = TRUE,
                                !.calls = Append(@, Call("initialize", NoNote))]
                 ELSE [p EXCEPT !.prevented = TRUE])
        \* Ctrl/Cmd + help key toggles the overlay, which is display state
        ELSE IF (event.ctrlKey \/ event.metaKey) /\ key = layout.helpKey
             THEN [p EXCEPT !.prevented = TRUE]
        ELSE IF /\ event.shiftKey /\ event.code[1] = "Digit"
                /\ parseInt(event.code[2]) >= 1 /\ parseInt(event.code[2]) <= 7
             THEN [p EXCEPT !.prevented = TRUE,
                            !.currentMode = modes[(parseInt(event.code[2]) - 1) + 1]]
        ELSE IF ~p.keyboardEnabled THEN p
        ELSE IF key \in p.pressedKeys THEN p
        ELSE IF key = layout.sustainKey
             THEN [p EXCEPT !.prevented = TRUE,
                            !.calls = Append(@, Call("enableSustain", NoNote)),
                            !.sustainPedal = TRUE]
        ELSE LET mapping == findScaleDegreeMapping(lookupKeyOf(event), layout)
             IN  IF mapping = NoMapping THEN p
                 ELSE playScaleDegree([p EXCEPT !.prevented = TRUE,
                                                !.pressedKeys = @ \cup {mapping.key}],
                                      mapping.scaleDegree, mapping.octaveOffset,
                                      event.altKey, mapping.key)

\* handleKeyDown without the pass-through tests
handleKeyDownAnywhere(p, event) == dispatchKeyDown(p, event)

handleKeyDown(p, event) ==
    IF event.key \in UI_NAVIGATION_KEYS THEN p
    ELSE IF inInput THEN p
    ELSE dispatchKeyDown(p, event)

\* the pedal-release branch without sustainedNotes.clear()
releaseSustainedWithoutClear(p) ==
    LET sus == IterationOrder(DOMAIN p.sustainedNotes)
    IN  [p EXCEPT !.calls = @ \o <<Call("disableSustain", NoNote)>>
                              \o [i \in 1..Len(sus) |-> Call("releaseNote", p.sustainedNotes[sus[i]])],
                  !.activeNotes = @ \ DOMAIN p.sustainedNotes,
                  !.sustainPedal = FALSE]

\* releaseSustained releasing the held notes as well
releaseSustainedAndHeld(p) ==
    [p EXCEPT !.calls = @ \o <<Call("disableSustain", NoNote)>> \o releaseEverything(p),
              !.activeNotes = @ \ (DOMAIN p.sustainedNotes \cup DOMAIN p.heldNotes),
              !.sustainPedal = FALSE,
              !.sustainedNotes = EmptyMap]

\* the pedal-release branch of handleKeyUp: each sustained note is released
\* and loses its highlight
releaseSustained(p) ==
    LET sus == IterationOrder(DOMAIN p.sustainedNotes)
    IN  [p EXCEPT !.calls = @ \o <<Call("disableSustain", NoNote)>>
                              \o [i \in 1..Len(sus) |-> Call("releaseNote", p.sustainedNotes[sus[i]])],
                  !.activeNotes = @ \ DOMAIN p.sustainedNotes,
                  !.sustainPedal = FALSE,
                  !.sustainedNotes = EmptyMap]

handleKeyUp(p, event) ==
    LET key    == toLowerCase(event.key)
        layout == getKeyboardLayout(keyboardLayout)
    IN  IF ~p.keyboardEnabled THEN p
        ELSE IF key = layout.sustainKey THEN releaseSustained(p)
        ELSE LET mapping == findScaleDegreeMapping(lookupKeyOf(event), layout)
             IN  IF mapping = NoMapping THEN p
                 ELSE stopScaleDegree([p EXCEPT !.pressedKeys = @ \ {mapping.key}],
                                      mapping.scaleDegree, mapping.octaveOffset, mapping.key)

handleBlur(p) ==
    IF ~p.keyboardEnabled THEN p
    ELSE [p EXCEPT !.calls = @ \o <<Call("disableSustain", NoNote)>> \o releaseEverything(p),
                   !.activeNotes = @ \ (DOMAIN p.sustainedNotes \cup DOMAIN p.heldNotes),
                   !.pressedKeys = {},
                   !.sustainedNotes = EmptyMap,
                   !.heldNotes = EmptyMap,
                   !.keyToNotes = EmptyMap]

(***************************************************************************)
(* The state machine                                                       *)
(***************************************************************************)
\* no call of the theory engine is being followed
NoTheoryCall ==
    [fn |-> "none", root |-> "C", mode |-> "ionian", octave |-> 4, degree |-> 0,
     semitones |-> 0, notes |-> {}]

NotReturned == [returned |-> FALSE, value |-> <<>>]

Returned(value) == [returned |-> TRUE, value |-> value]

\* the state after construction, the highlights followed or left out
Start(followed) ==
    /\ keyboardEnabled = FALSE
    /\ sustainPedal = FALSE
    /\ currentMode = "ionian"
    /\ currentRoot = "C"
    /\ currentOctave = 4
    /\ pressedKeys = {}
    /\ sustainedNotes = EmptyMap
    /\ heldNotes = EmptyMap
    /\ keyToNotes = EmptyMap
    /\ synth = FALSE
    /\ isInitialized = FALSE
    /\ toneStarting = 0
    /\ reverbLoading = 0
    /\ envelope = "natural"
    /\ strikes = EmptyMap
    /\ physDown = {}
    /\ inInput = FALSE
    /\ lastCalls = NoCalls
    /\ theoryCall = NoTheoryCall
    /\ theoryResult = NotReturned
    /\ activeNotes = {}
    /\ highlightsFollowed = followed
    /\ noteOffTimers = EmptyMap
    /\ initAudioListening = TRUE

Init == Start(FALSE)

\* a handler has run: p is the program state it leaves, with the calls it
\* made, and e the engine after those calls (each bound to its value, so
\* that the handler is evaluated once)
Handled(ran) ==
    \E p \in {ran} : \E e \in {EngineCalls(Engine, p.calls)} :
        /\ e.toneStarting + e.reverbLoading <= MaxInitCalls
        /\ BagSize(e.strikes) <= MaxVoices
        /\ keyboardEnabled' = p.keyboardEnabled
        /\ sustainPedal' = p.sustainPedal
        /\ currentMode' = p.currentMode
        /\ pressedKeys' = p.pressedKeys
        /\ sustainedNotes' = p.sustainedNotes
        /\ heldNotes' = p.heldNotes
        /\ keyToNotes' = p.keyToNotes
        /\ activeNotes' = IF highlightsFollowed THEN p.activeNotes ELSE activeNotes
        /\ synth' = e.synth
        /\ isInitialized' = e.isInitialized
        /\ toneStarting' = e.toneStarting
        /\ reverbLoading' = e.reverbLoading
        /\ envelope' = e.envelope
        /\ strikes' = e.strikes
        /\ lastCalls' = [attacks  |-> NotesOf(p.calls, "attackNote"),
                         releases |-> NotesOf(p.calls, "releaseNote")]
        /\ UNCHANGED <<currentRoot, currentOctave, theoryVars, highlightsFollowed,
                       noteOffTimers, initAudioListening>>

KeyDown(code, altKey, key) ==
    /\ physDown' = physDown \cup {code}
    /\ UNCHANGED inInput
    /\ LET event == KeyEvent("keydown", code, key, altKey)
       IN  Handled(handleKeyDown(Program, event))

KeyUp(code, altKey, key) ==
    /\ code \in physDown
    /\ physDown' = physDown \ {code}
    /\ UNCHANGED inInput
    /\ LET event == KeyEvent("keyup", code, key, altKey)
       IN  Handled(handleKeyUp(Program, event))

LayoutKeyDown ==
    \E code \in PlayedCodes, altKey \in BOOLEAN :
        \E key \in EventKeys(code, altKey) : KeyDown(code, altKey, key)

LayoutKeyUp ==
    \E code \in PlayedCodes, altKey \in BOOLEAN :
        \E key \in EventKeys(code, altKey) : KeyUp(code, altKey, key)

SustainKeyDown == KeyDown(Space, FALSE, PlainKey(Space))

SustainKeyUp == KeyUp(Space, FALSE, PlainKey(Space))

\* the toggle key goes down; its key-up is handled as an unmapped key and
\* changes nothing, so the key is not kept in physDown
ToggleKeyDown ==
    /\ UNCHANGED envVars
    /\ LET event == KeyEvent("keydown", Backquote, PlainKey(Backquote), FALSE)
       IN  Handled(handleKeyDown(Program, event))

\* a click on a keyboard toggle button of the page
ToggleButton ==
    /\ UNCHANGED envVars
    /\ Handled(toggleKeyboard(Program))

WindowBlur ==
    /\ UNCHANGED envVars
    /\ Handled(handleBlur(Program))

\* focus moves into or out of an input, textarea or select element
FocusChange ==
    /\ inInput' = ~inInput
    /\ UNCHANGED <<physDown, storeVars, refVars, engineVars, theoryVars, pageVars>>
    /\ lastCalls' = NoCalls

\* Tone.start() resolved for one initialize() call: the effects and the synth
\* are constructed, and the call waits for reverb.ready
ToneStarted ==
    /\ toneStarting > 0
    /\ toneStarting' = toneStarting - 1
    /\ reverbLoading' = reverbLoading + 1
    /\ synth' = TRUE
    /\ envelope' = "natural"
    /\ UNCHANGED <<isInitialized, strikes, storeVars, refVars, envVars, theoryVars,
                   pageVars>>
    /\ lastCalls' = NoCalls

\* Tone.start() rejected: initialize() throws and nothing is constructed
ToneStartFailed ==
    /\ toneStarting > 0
    /\ toneStarting' = toneStarting - 1
    /\ UNCHANGED <<reverbLoading, synth, envelope, isInitialized, strikes,
                   storeVars, refVars, envVars, theoryVars, pageVars>>
    /\ lastCalls' = NoCalls

\* reverb.ready resolved for one initialize() call
ReverbReady ==
    /\ reverbLoading > 0
    /\ reverbLoading' = reverbLoading - 1
    /\ isInitialized' = TRUE
    /\ UNCHANGED <<toneStarting, synth, envelope, strikes, storeVars, refVars, envVars,
                   theoryVars, pageVars>>
    /\ lastCalls' = NoCalls

\* the events of the performance state machine, focus staying outside inputs
Next ==
    \/ LayoutKeyDown
    \/ LayoutKeyUp
    \/ SustainKeyDown
    \/ SustainKeyUp
    \/ ToggleKeyDown
    \/ ToggleButton
    \/ WindowBlur
    \/ ToneStarted
    \/ ToneStartFailed
    \/ ReverbReady

Spec == Init /\ [][Next]_vars

\* Shift + digit goes down: the mode shortcut; the key-up of the digit is
\* handled as an unmapped key and changes nothing
ModeShortcut ==
    \E d \in ShortcutDigits :
        /\ UNCHANGED envVars
        /\ LET event == [KeyEvent("keydown", Digit(d), ShiftChar(Digit(d)), FALSE)
                            EXCEPT !.shiftKey = TRUE]
           IN  Handled(handleKeyDown(Program, event))

\* Ctrl + / goes down: the help shortcut
HelpShortcut ==
    /\ UNCHANGED envVars
    /\ LET event == [KeyEvent("keydown", Slash, "/", FALSE) EXCEPT !.ctrlKey = TRUE]
       IN  Handled(handleKeyDown(Program, event))

\* the same with the mode and help shortcuts, for at most MaxModeVoices
\* outstanding attackNote calls
NextModes ==
    \/ Next /\ BagSize(strikes') <= MaxModeVoices
    \/ ModeShortcut
    \/ HelpShortcut

SpecModes == Init /\ [][NextModes]_vars

\* a reserved UI-navigation key goes down (event.code and event.key are both
\* the key's name); its key-up is handled as an unmapped key and changes nothing
NavKeyDown ==
    \E key \in UI_NAVIGATION_KEYS, altKey \in BOOLEAN :
        /\ UNCHANGED envVars
        /\ Handled(handleKeyDown(Program, KeyEvent("keydown", <<key, "">>, key, altKey)))

\* the events of the performance state machine with focus moving into and out
\* of input elements and with the navigation keys, for at most MaxFocusVoices
\* outstanding attackNote calls
NextFocus ==
    \/ Next /\ BagSize(strikes') <= MaxFocusVoices
    \/ FocusChange
    \/ NavKeyDown

SpecFocus == Init /\ [][NextFocus]_vars

\* the roots and the octaves the page is set to while keys are down
RetuneRoots == {"C", "D"}

RetuneOctaves == {4, 5}

\* setRoot and setOctave of the store, called by the selectors of the page
SetRoot ==
    \E root \in RetuneRoots :
        /\ currentRoot' = root
        /\ lastCalls' = NoCalls
        /\ UNCHANGED <<keyboardEnabled, sustainPedal, currentMode, currentOctave,
                       refVars, engineVars, envVars, theoryVars, pageVars>>

SetOctave ==
    \E octave \in RetuneOctaves :
        /\ currentOctave' = octave
        /\ lastCalls' = NoCalls
        /\ UNCHANGED <<keyboardEnabled, sustainPedal, currentMode, currentRoot,
                       refVars, engineVars, envVars, theoryVars, pageVars>>

\* the events of the performance state machine with the sustain key never
\* touched, while the root, the mode and the octave change, for at most
\* MaxRetuneVoices outstanding attackNote calls
NextRetune ==
    \/ LayoutKeyDown /\ BagSize(strikes') <= MaxRetuneVoices
    \/ LayoutKeyUp
    \/ ToggleKeyDown
    \/ ToggleButton
    \/ WindowBlur
    \/ ToneStarted
    \/ ToneStartFailed
    \/ ReverbReady
    \/ ModeShortcut
    \/ SetRoot
    \/ SetOctave

SpecRetune == Init /\ [][NextRetune]_vars

\* the events of the performance state machine with the sustain key never
\* touched, and with two layout keys of the same pitch
SamePitchKeyDown ==
    \E code \in SamePitchCodes, altKey \in BOOLEAN :
        \E key \in EventKeys(code, altKey) : KeyDown(code, altKey, key)

SamePitchKeyUp ==
    \E code \in SamePitchCodes, altKey \in BOOLEAN :
        \E key \in EventKeys(code, altKey) : KeyUp(code, altKey, key)

NextPedalUp ==
    \/ SamePitchKeyDown
    \/ SamePitchKeyUp
    \/ ToggleKeyDown
    \/ ToggleButton
    \/ WindowBlur
    \/ ToneStarted
    \/ ToneStartFailed
    \/ ReverbReady

SpecPedalUp == Init /\ [][NextPedalUp]_vars

\* a layout key goes down and one of the attackNote calls of the handler
\* throws (synth.triggerAttack is not guarded): the first, or a later one of
\* a chord.  The throwing call starts no voice.
AttackNoteThrows ==
    \E code \in PlayedCodes, altKey \in BOOLEAN :
        \E key \in EventKeys(code, altKey), n \in 1..3 :
            \E p \in {handleKeyDown([Program EXCEPT !.throwAt = n],
                                     KeyEvent("keydown", code, key, altKey))} :
                /\ p.thrown
                /\ physDown' = physDown \cup {code}
                /\ UNCHANGED inInput
                /\ Handled(p)

\* the events of the performance state machine with an engine whose
\* attackNote may throw, for at most MaxFailVoices outstanding attackNote calls
NextFail ==
    \/ Next /\ BagSize(strikes') <= MaxFailVoices
    \/ AttackNoteThrows /\ BagSize(strikes') <= MaxFailVoices

SpecFail == Init /\ [][NextFail]_vars

(***************************************************************************)
(* components/PianoKeyboard.tsx: the clicks of the page                    *)
(***************************************************************************)
\* the piano keys clicked: C4 and E4, which the layout keys play as well
ClickedNotes == {createNote("C", 4), createNote("E", 4)}

\* the first click on the page, on a piano key or away from the controls:
\* handleNoteClick returns at once while the engine is not initialized, and
\* the listener registered with once: true runs initAudio
FirstClick ==
    /\ initAudioListening
    /\ initAudioListening' = FALSE
    /\ LET e == IF ~isInitialized THEN initialize(Engine) ELSE Engine
       IN  /\ e.toneStarting + e.reverbLoading <= MaxInitCalls
           /\ toneStarting' = e.toneStarting
    /\ lastCalls' = NoCalls
    /\ UNCHANGED <<synth, isInitialized, reverbLoading, envelope, strikes, storeVars,
                   refVars, envVars, theoryVars, activeNotes, highlightsFollowed,
                   noteOffTimers>>

\* handleNoteClick with the engine initialized: the key is highlighted, the
\* note is played as an eighth note, which the synth ends by itself, and a
\* timer of 500 ms is started.  A click that is the first of the page finds
\* the engine initialized and only unregisters the listener.
NoteClick ==
    \E note \in ClickedNotes :
        /\ isInitialized
        /\ BagSize(noteOffTimers) < MaxPendingTimers
        /\ activeNotes' = activeNotes \cup {note.midiNumber}
        /\ noteOffTimers' = MapSet(noteOffTimers, note.midiNumber,
                                   StrikesOf(noteOffTimers, note.midiNumber) + 1)
        /\ initAudioListening' = FALSE
        /\ lastCalls' = NoCalls
        /\ UNCHANGED <<storeVars, refVars, engineVars, envVars, theoryVars,
                       highlightsFollowed>>

\* the callback of a timer: removeActiveNote of the MIDI number clicked.  The
\* timers have the same delay and fire in the order of their clicks, so the
\* timer of a MIDI number that fires is the oldest one pending for it.
NoteOffTimer ==
    \E midiNumber \in DOMAIN noteOffTimers :
        /\ activeNotes' = activeNotes \ {midiNumber}
        /\ noteOffTimers' = IF noteOffTimers[midiNumber] = 1
                            THEN MapDelete(noteOffTimers, midiNumber)
                            ELSE MapSet(noteOffTimers, midiNumber,
                                        noteOffTimers[midiNumber] - 1)
        /\ lastCalls' = NoCalls
        /\ UNCHANGED <<storeVars, refVars, engineVars, envVars, theoryVars,
                       highlightsFollowed, initAudioListening>>

InitPage == Start(TRUE)

\* the events of the performance state machine with the highlights followed
\* and with the clicks of the page, for at most MaxPageVoices outstanding
\* attackNote calls and MaxPendingTimers pending timers
NextPage ==
    \/ LayoutKeyDown /\ BagSize(strikes') <= MaxPageVoices
    \/ LayoutKeyUp
    \/ SustainKeyDown
    \/ SustainKeyUp
    \/ ToggleKeyDown
    \/ ToggleButton
    \/ WindowBlur
    \/ ToneStarted
    \/ ToneStartFailed
    \/ ReverbReady
    \/ FirstClick
    \/ NoteClick
    \/ NoteOffTimer

SpecPage == InitPage /\ [][NextPage]_vars

(***************************************************************************)
(* The theory engine called on its own: a call is drawn from the roots,    *)
(* modes, octaves and degrees below, and the function called returns.      *)
(* The page offers the base octaves 2 to 6 and the layouts reach one octave *)
(* below and two above them; the octaves drawn are those of the MIDI       *)
(* numbers from 0 upward, -1 being the lowest.  (Below it getNoteName      *)
(* takes the remainder of a negative number and finds no name.)            *)
(***************************************************************************)
TheoryRoots == {NOTE_NAMES[i] : i \in 1..Len(NOTE_NAMES)}

TheoryModes == DOMAIN MODES

TheoryOctaves == (0 - 1)..9

TheoryDegrees == (0 - 1)..9

\* the semitone counts a note is transposed by, more than an octave each way
TheorySemitones == (0 - 14)..14

\* the MIDI numbers the analysed notes are taken from, G3 to F#4: each of the
\* twelve pitch classes once, over two octaves
AnalysedMidi == 55..66

\* the roots analyzeModeFromNotes may be given, "undefined" for none
PossibleRoots == TheoryRoots \cup {"undefined"}

\* the notes of the MIDI range 0..127, C-1 to G9
MidiNotes ==
    {note \in {createNote(name, octave) : name \in TheoryRoots, octave \in TheoryOctaves} :
        note.midiNumber \in 0..127}

TheoryCalls ==
    [fn : {"generateScale", "generateDiatonicChords"},
     root : TheoryRoots, mode : TheoryModes, octave : TheoryOctaves, degree : {0},
     semitones : {0}, notes : {{}}]
        \cup [fn : {"buildChordFromDegree"},
              root : TheoryRoots, mode : TheoryModes, octave : TheoryOctaves,
              degree : TheoryDegrees, semitones : {0}, notes : {{}}]
        \cup [fn : {"getModesByBrightness", "getModesByTraditionalOrder"},
              root : {"C"}, mode : {"ionian"}, octave : {4}, degree : {0},
              semitones : {0}, notes : {{}}]
        \cup {[fn |-> "createNote", root |-> note.name, mode |-> "ionian",
               octave |-> note.octave, degree |-> 0, semitones |-> 0, notes |-> {}] :
                  note \in MidiNotes}
        \cup {[fn |-> "transposeNote", root |-> note.name, mode |-> "ionian",
               octave |-> note.octave, degree |-> 0, semitones |-> n, notes |-> {}] :
                  note \in MidiNotes, n \in TheorySemitones}

\* the calls of analyzeModeFromNotes: every non-empty set of analysed notes,
\* with each root and with none
AnalysisCalls ==
    {[fn |-> "analyzeModeFromNotes", root |-> root, mode |-> "ionian",
      octave |-> 4, degree |-> 0, semitones |-> 0, notes |-> notes] :
         root \in PossibleRoots, notes \in (SUBSET AnalysedMidi) \ {{}}}

TheoryInit(calls) ==
    /\ keyboardEnabled = FALSE
    /\ sustainPedal = FALSE
    /\ currentMode = "ionian"
    /\ currentRoot = "C"
    /\ currentOctave = 4
    /\ pressedKeys = {}
    /\ sustainedNotes = EmptyMap
    /\ heldNotes = EmptyMap
    /\ keyToNotes = EmptyMap
    /\ synth = FALSE
    /\ isInitialized = FALSE
    /\ toneStarting = 0
    /\ reverbLoading = 0
    /\ envelope = "natural"
    /\ strikes = EmptyMap
    /\ physDown = {}
    /\ inInput = FALSE
    /\ lastCalls = NoCalls
    /\ theoryCall \in calls
    /\ theoryResult = NotReturned
    /\ activeNotes = {}
    /\ highlightsFollowed = FALSE
    /\ noteOffTimers = EmptyMap
    /\ initAudioListening = TRUE

InitTheory == TheoryInit(TheoryCalls)

TheoryReturns(fn, value) ==
    /\ theoryCall.fn = fn
    /\ ~theoryResult.returned
    /\ theoryResult' = Returned(value)
    /\ UNCHANGED <<theoryCall, storeVars, refVars, engineVars, envVars, lastCalls,
                   pageVars>>

CallGenerateScale ==
    TheoryReturns("generateScale",
                  generateScale(theoryCall.root, theoryCall.mode, theoryCall.octave))

CallGenerateDiatonicChords ==
    TheoryReturns("generateDiatonicChords",
                  generateDiatonicChords(theoryCall.root, theoryCall.mode, theoryCall.octave))

CallBuildChordFromDegree ==
    TheoryReturns("buildChordFromDegree",
                  buildChordFromDegree(theoryCall.root, theoryCall.mode,
                                       theoryCall.degree, theoryCall.octave))

CallCreateNote ==
    TheoryReturns("createNote", createNote(theoryCall.root, theoryCall.octave))

\* the note transposed is the one createNote makes of the name and the octave
CallTransposeNote ==
    TheoryReturns("transposeNote",
                  transposeNote(createNote(theoryCall.root, theoryCall.octave),
                                theoryCall.semitones))

\* the notes of the given MIDI numbers, in ascending order
NotesOfMidi(midiNumbers) ==
    LET order == IterationOrder(midiNumbers)
    IN  [i \in DOMAIN order |-> createNote(getNoteName(order[i]), getOctave(order[i]))]

CallAnalyzeModeFromNotes ==
    TheoryReturns("analyzeModeFromNotes",
                  analyzeModeFromNotes(NotesOfMidi(theoryCall.notes), theoryCall.root))

CallGetModesByBrightness ==
    TheoryReturns("getModesByBrightness", getModesByBrightness)

CallGetModesByTraditionalOrder ==
    TheoryReturns("getModesByTraditionalOrder", getModesByTraditionalOrder)

NextTheory ==
    \/ CallGetModesByBrightness
    \/ CallGetModesByTraditionalOrder
    \/ CallCreateNote
    \/ CallTransposeNote
    \/ CallGenerateScale
    \/ CallGenerateDiatonicChords
    \/ CallBuildChordFromDegree

SpecTheory == InitTheory /\ [][NextTheory]_vars

\* analyzeModeFromNotes called on its own
InitAnalysis == TheoryInit(AnalysisCalls)

NextAnalysis == CallAnalyzeModeFromNotes

SpecAnalysis == InitAnalysis /\ [][NextAnalysis]_vars

(***************************************************************************)
(* Vocabulary of the properties                                            *)
(***************************************************************************)
PitchC4 == <<"C", 4>>
PitchE4 == <<"E", 4>>
PitchG4 == <<"G", 4>>
PitchB4 == <<"B", 4>>

\* the pitches that received attackNote with no releaseNote after it
Sounding == DOMAIN strikes

MidiOf(pitch) == getNoteNumber(pitch[1], pitch[2])

NoteOf(pitch) == createNote(pitch[1], pitch[2])

Range(seq) == {seq[i] : i \in 1..Len(seq)}

\* the four tracking collections are empty
NothingTracked ==
    /\ pressedKeys = {}
    /\ heldNotes = EmptyMap
    /\ sustainedNotes = EmptyMap
    /\ keyToNotes = EmptyMap

\* the pitch the played keys resolve to in C ionian, octave 4
PitchOfKey(code) ==
    CASE code = KeyA  -> PitchC4
      [] code = Comma -> PitchC4
      [] code = KeyD  -> PitchE4

\* the chord the played keys resolve to in C ionian, octave 4
ChordOfKey(code) ==
    CASE code = KeyA  -> <<PitchC4, PitchE4, PitchG4>>
      [] code = Comma -> <<PitchC4, PitchE4, PitchG4>>
      [] code = KeyD  -> <<PitchE4, PitchG4, PitchB4>>

\* the events a layout key can produce
KeyInputs == {in \in [code : PlayedCodes, altKey : BOOLEAN, key : {PlainKey(c) : c \in PlayedCodes}
                                                         \cup {AltChar(c) : c \in PlayedCodes}] :
                 in.key \in EventKeys(in.code, in.altKey)}

(***************************************************************************)
(* C1: no stuck notes.  With the audio engine initialized, whenever no key *)
(* (layout key or sustain key) is physically down, no pitch is sounding:   *)
(* every attackNote has been followed by a releaseNote of its pitch.       *)
(***************************************************************************)
C1_NoStuckNotes ==
    (isInitialized /\ physDown = {}) => Sounding = {}

(***************************************************************************)
(* C2: from empty tracking collections, pedal up and performance mode      *)
(* enabled, the key-down of a mapped key issues exactly one attackNote     *)
(* (for the resolved pitch), and the key-up that follows issues exactly    *)
(* one releaseNote for it and leaves heldNotes, keyToNotes and pressedKeys *)
(* empty and nothing sounding.                                             *)
(***************************************************************************)
\* the state left by the single-note key-down of code from empty collections
JustPressed(code) ==
    LET k == PlainKey(code)
        n == NoteOf(PitchOfKey(code))
    IN  /\ keyboardEnabled /\ isInitialized /\ ~sustainPedal
        /\ lastCalls = [attacks |-> <<PitchOfKey(code)>>, releases |-> <<>>]
        /\ pressedKeys = {k}
        /\ heldNotes = MapSet(EmptyMap, n.midiNumber, n)
        /\ sustainedNotes = EmptyMap
        /\ keyToNotes = MapSet(EmptyMap, k, {n.midiNumber})
        /\ strikes = MapSet(EmptyMap, PitchOfKey(code), 1)

C2_PressThenRelease ==
    [][\A code \in PlayedCodes :
          /\ ( /\ keyboardEnabled /\ isInitialized /\ ~sustainPedal /\ ~inInput
               /\ NothingTracked
               /\ KeyDown(code, FALSE, PlainKey(code)) )
             => JustPressed(code)'
          /\ \A in \in KeyInputs :
               ( /\ in.code = code
                 /\ JustPressed(code)
                 /\ KeyUp(code, in.altKey, in.key) )
               => /\ lastCalls' = [attacks |-> <<>>, releases |-> <<PitchOfKey(code)>>]
                  /\ NothingTracked'
                  /\ Sounding' = {}
      ]_vars

\* the key "a" was pressed and released from empty collections
C2_Witness ==
    /\ keyboardEnabled /\ isInitialized /\ ~sustainPedal
    /\ lastCalls = [attacks |-> <<>>, releases |-> <<PitchC4>>]
    /\ NothingTracked
    /\ Sounding = {}
    /\ physDown = {}

(***************************************************************************)
(* C3: a key-down of a physical key that is still down, is in pressedKeys  *)
(* and has its notes recorded (auto-repeat after a key-down that played)   *)
(* is a no-op: it issues no attackNote and leaves heldNotes,               *)
(* sustainedNotes and keyToNotes unchanged, whether the pedal is up or     *)
(* down.                                                                   *)
(***************************************************************************)
C3_RepeatIsNoOp ==
    [][\A in \in KeyInputs :
          ( /\ isInitialized
            /\ in.code \in physDown
            /\ PlainKey(in.code) \in pressedKeys
            /\ PlainKey(in.code) \in DOMAIN keyToNotes
            /\ KeyDown(in.code, in.altKey, in.key) )
          => /\ lastCalls'.attacks = <<>>
             /\ UNCHANGED <<heldNotes, sustainedNotes, keyToNotes>>
      ]_vars

(***************************************************************************)
(* C4: with the pedal up, the key-up of a key leaves none of the notes     *)
(* recorded for it in heldNotes and drops its keyToNotes entry; after an   *)
(* Alt key-down that recorded a chord whose notes are all held, the key-up *)
(* (Alt still held or not) issues exactly one releaseNote for every note   *)
(* of the chord.                                                           *)
(***************************************************************************)
\* the key of code tracks its chord, every note of it in heldNotes
ChordHeld(code) ==
    LET k == PlainKey(code)
    IN  /\ k \in DOMAIN keyToNotes
        /\ keyToNotes[k] = {MidiOf(c) : c \in Range(ChordOfKey(code))}
        /\ keyToNotes[k] \subseteq DOMAIN heldNotes

C4_ChordRelease ==
    [][\A in \in KeyInputs :
          LET k == PlainKey(in.code)
          IN  ( /\ keyboardEnabled /\ ~sustainPedal
                /\ k \in DOMAIN keyToNotes
                /\ KeyUp(in.code, in.altKey, in.key) )
              => /\ keyToNotes[k] \cap DOMAIN heldNotes' = {}
                 /\ k \notin DOMAIN keyToNotes'
                 /\ ChordHeld(in.code)
                      => BagOf(lastCalls'.releases)
                           = [c \in Range(ChordOfKey(in.code)) |-> 1]
      ]_vars

\* the chord on "a" was played and released with the pedal up
C4_Witness ==
    /\ keyboardEnabled /\ isInitialized /\ ~sustainPedal
    /\ lastCalls = [attacks |-> <<>>, releases |-> <<PitchC4, PitchE4, PitchG4>>]
    /\ heldNotes = EmptyMap
    /\ keyToNotes = EmptyMap
    /\ pressedKeys = {}
    /\ physDown = {}
    /\ Sounding = {}

(***************************************************************************)
(* C5: sustain compounds.  With the pedal down every press of a key issues *)
(* one more attackNote for its pitch, which is then in sustainedNotes; the *)
(* key-up of a key whose recorded notes are sustained issues no            *)
(* releaseNote; pedal-up issues releaseNote exactly once for every         *)
(* sustained pitch, after which none of them is sounding.                  *)
(***************************************************************************)
SustainedPitches == {toToneNotation(sustainedNotes[m]) : m \in DOMAIN sustainedNotes}

C5_SustainCompounds ==
    [][/\ \A code \in PlayedCodes :
            LET pitch == PitchOfKey(code)
            IN  ( /\ keyboardEnabled /\ isInitialized /\ sustainPedal /\ ~inInput
                  /\ PlainKey(code) \notin pressedKeys
                  /\ KeyDown(code, FALSE, PlainKey(code)) )
                => /\ lastCalls' = [attacks |-> <<pitch>>, releases |-> <<>>]
                   /\ strikes' = MapSet(strikes, pitch, StrikesOf(strikes, pitch) + 1)
                   /\ MidiOf(pitch) \in DOMAIN sustainedNotes'
       /\ \A in \in KeyInputs :
            LET k == PlainKey(in.code)
            IN  ( /\ keyboardEnabled
                  /\ k \in DOMAIN keyToNotes
                  /\ keyToNotes[k] \subseteq DOMAIN sustainedNotes
                  /\ KeyUp(in.code, in.altKey, in.key) )
                => /\ lastCalls'.releases = <<>>
                   /\ strikes' = strikes
       /\ (keyboardEnabled /\ SustainKeyUp)
            => /\ BagOf(lastCalls'.releases) = [pitch \in SustainedPitches |-> 1]
               /\ SustainedPitches \cap Sounding' = {}
      ]_vars

\* "a" was pressed three times under the pedal: three attackNote calls for PitchC4
\* are outstanding
C5_Witness ==
    /\ keyboardEnabled /\ isInitialized /\ sustainPedal
    /\ lastCalls = [attacks |-> <<PitchC4>>, releases |-> <<>>]
    /\ StrikesOf(strikes, PitchC4) = 3
    /\ MidiOf(PitchC4) \in DOMAIN sustainedNotes
    /\ MidiOf(PitchC4) \notin DOMAIN heldNotes

(***************************************************************************)
(* C6: a window blur while performance mode is enabled issues exactly      *)
(* |heldNotes| + |sustainedNotes| releaseNote calls, one for every entry   *)
(* of either collection, and leaves pressedKeys, heldNotes, sustainedNotes *)
(* and keyToNotes empty.                                                   *)
(***************************************************************************)
C6_BlurReleasesAll ==
    [][(keyboardEnabled /\ WindowBlur)
          => /\ Len(lastCalls'.releases)
                  = Cardinality(DOMAIN heldNotes) + Cardinality(DOMAIN sustainedNotes)
             /\ \A m \in DOMAIN heldNotes \cup DOMAIN sustainedNotes :
                  LET note == IF m \in DOMAIN heldNotes THEN heldNotes[m]
                                                        ELSE sustainedNotes[m]
                  IN  CountIn(lastCalls'.releases, toToneNotation(note))
                        = (IF m \in DOMAIN heldNotes THEN 1 ELSE 0)
                          + (IF m \in DOMAIN sustainedNotes THEN 1 ELSE 0)
             /\ NothingTracked'
      ]_vars

\* a blur released one sustained note (PitchC4) and three held notes (PitchE4, PitchG4, PitchB4)
C6_Witness ==
    /\ keyboardEnabled /\ isInitialized
    /\ lastCalls = [attacks |-> <<>>, releases |-> <<PitchC4, PitchE4, PitchG4, PitchB4>>]
    /\ NothingTracked
    /\ physDown # {}

(***************************************************************************)
(* C7: right after a window blur in performance mode, and right after      *)
(* performance mode is switched off (toggle key or toggle button), no      *)
(* pitch is sounding: every attackNote has its releaseNote.                *)
(***************************************************************************)
C7_SilentAfterFlush ==
    [][( \/ keyboardEnabled /\ WindowBlur
         \/ keyboardEnabled /\ ~inInput /\ ToggleKeyDown
         \/ keyboardEnabled /\ ToggleButton )
          => Sounding' = {}
      ]_vars

\* performance mode was switched off while notes were sounding and keys down
C7_Witness ==
    /\ ~keyboardEnabled /\ isInitialized
    /\ Len(lastCalls.releases) >= 2
    /\ physDown # {}
    /\ NothingTracked
    /\ Sounding = {}

(***************************************************************************)
(* C8: key-up never releases a sustained note: the key-up of a layout key  *)
(* issues no releaseNote for a pitch in sustainedNotes and leaves          *)
(* sustainedNotes as it was; a handler that issues releaseNote for a pitch *)
(* in sustainedNotes is the pedal-up, the blur or the switch-off.          *)
(***************************************************************************)
C8_KeyUpSparesSustained ==
    [][/\ \A in \in KeyInputs :
            (keyboardEnabled /\ KeyUp(in.code, in.altKey, in.key))
            => /\ sustainedNotes' = sustainedNotes
               /\ SustainedPitches \cap Range(lastCalls'.releases) = {}
       /\ (SustainedPitches \cap Range(lastCalls'.releases) # {})
            => (SustainKeyUp \/ WindowBlur \/ ToggleKeyDown \/ ToggleButton)
      ]_vars

\* "a" was pressed and released under the pedal: its note is still tracked,
\* sustained and sounding
C8_Witness ==
    /\ keyboardEnabled /\ isInitialized /\ sustainPedal
    /\ lastCalls = NoCalls
    /\ KeyA \notin physDown
    /\ "a" \notin pressedKeys
    /\ "a" \in DOMAIN keyToNotes
    /\ keyToNotes["a"] = {MidiOf(PitchC4)}
    /\ MidiOf(PitchC4) \in DOMAIN sustainedNotes
    /\ PitchC4 \in Sounding

(***************************************************************************)
(* C9: pedal-up sets sustainPedal to false, issues releaseNote exactly     *)
(* once for every pitch in sustainedNotes and for no other pitch, empties  *)
(* sustainedNotes, and leaves heldNotes, pressedKeys and keyToNotes as     *)
(* they were; a pitch that is only held keeps sounding.                    *)
(***************************************************************************)
C9_PedalUp ==
    [][(keyboardEnabled /\ SustainKeyUp)
          => /\ ~sustainPedal'
             /\ lastCalls'.attacks = <<>>
             /\ BagOf(lastCalls'.releases) = [pitch \in SustainedPitches |-> 1]
             /\ sustainedNotes' = EmptyMap
             /\ UNCHANGED <<heldNotes, pressedKeys, keyToNotes>>
             /\ \A pitch \in Sounding \ SustainedPitches :
                  StrikesOf(strikes', pitch) = strikes[pitch]
      ]_vars

\* pedal-up released the sustained PitchC4 of "a" while the PitchE4 of "d" stays held
C9_Witness ==
    /\ keyboardEnabled /\ isInitialized /\ ~sustainPedal
    /\ lastCalls = [attacks |-> <<>>, releases |-> <<PitchC4>>]
    /\ sustainedNotes = EmptyMap
    /\ pressedKeys = {"d"}
    /\ "a" \in DOMAIN keyToNotes
    /\ DOMAIN heldNotes = {MidiOf(PitchE4)}
    /\ Sounding = {PitchE4}

(***************************************************************************)
(* C10: with the pedal up a key-down issues attackNote only for a pitch    *)
(* whose MIDI number is not in heldNotes, and once; no pitch has more than *)
(* one attackNote outstanding after it.                                    *)
(***************************************************************************)
C10_PedalUpAttackOnce ==
    [][\A in \in KeyInputs :
          (~sustainPedal /\ KeyDown(in.code, in.altKey, in.key))
          => /\ \A pitch \in Range(lastCalls'.attacks) :
                  /\ MidiOf(pitch) \notin DOMAIN heldNotes
                  /\ CountIn(lastCalls'.attacks, pitch) = 1
             /\ \A pitch \in Sounding' : strikes'[pitch] = 1
      ]_vars

\* with the chord of "a" held, "d" was pressed: PitchE4 was not attacked again
C10_Witness ==
    /\ keyboardEnabled /\ isInitialized /\ ~sustainPedal
    /\ lastCalls = NoCalls
    /\ pressedKeys = {"a", "d"}
    /\ keyToNotes = MapSet(MapSet(EmptyMap, "a", {MidiOf(PitchC4), MidiOf(PitchE4), MidiOf(PitchG4)}),
                           "d", {MidiOf(PitchE4)})
    /\ DOMAIN heldNotes = {MidiOf(PitchC4), MidiOf(PitchE4), MidiOf(PitchG4)}
    /\ strikes = [pitch \in {PitchC4, PitchE4, PitchG4} |-> 1]

\* ---------------------------------------------------------------------------
\* C11  A key-up of a layout key that has no entry in keyToNotes is a silent
\*      no-op: no releaseNote call, heldNotes and sustainedNotes unchanged.
\*      The fallback of stopScaleDegree resolves the key's degree again and
\*      releases that note when it is in heldNotes, so the statement fails for
\*      a key that went down while performance mode was disabled and comes up
\*      while a chord holding its note is down.
C11_UntrackedKeyUpIsNoOp ==
    [][\A in \in KeyInputs :
          ( /\ keyboardEnabled
            /\ PlainKey(in.code) \notin DOMAIN keyToNotes
            /\ KeyUp(in.code, in.altKey, in.key) )
          => /\ lastCalls'.releases = <<>>
             /\ UNCHANGED <<heldNotes, sustainedNotes>>
      ]_vars

\* ---------------------------------------------------------------------------
\* C12  While the audio engine is not initialized, a key-down of a layout
\*      key, a pedal-down and a pedal-up issue no engine call and leave
\*      pressedKeys, heldNotes, sustainedNotes, keyToNotes and the pedal flag
\*      unchanged.  The key-down handler adds the key to pressedKeys before
\*      playScaleDegree tests audioEngine.initialized, and the pedal-down
\*      branch calls enableSustain and sets the flag without testing it.
C12_UninitializedIsNoOp ==
    [][( /\ keyboardEnabled
         /\ ~isInitialized
         /\ (LayoutKeyDown \/ SustainKeyDown \/ SustainKeyUp) )
       => /\ lastCalls' = NoCalls
          /\ UNCHANGED <<pressedKeys, heldNotes, sustainedNotes, keyToNotes, sustainPedal>>
      ]_vars

\* ---------------------------------------------------------------------------
\* The key-down events a browser can deliver to the handler: the layout keys
\* with and without Alt, the pedal, the toggle key, Shift + digit, Ctrl + help
\* key, and the navigation keys with and without modifiers.
ModeShortcutEvent(d) ==
    [KeyEvent("keydown", Digit(d), ShiftChar(Digit(d)), FALSE) EXCEPT !.shiftKey = TRUE]

HelpShortcutEvent == [KeyEvent("keydown", Slash, "/", FALSE) EXCEPT !.ctrlKey = TRUE]

NavKeyEvents ==
    {[KeyEvent("keydown", <<key, "">>, key, altKey)
          EXCEPT !.shiftKey = shiftKey, !.ctrlKey = ctrlKey] :
        key \in UI_NAVIGATION_KEYS, altKey \in BOOLEAN, shiftKey \in BOOLEAN, ctrlKey \in BOOLEAN}

KeyDownEvents ==
    {KeyEvent("keydown", in.code, in.key, in.altKey) : in \in KeyInputs}
        \cup {KeyEvent("keydown", Space, PlainKey(Space), FALSE),
              KeyEvent("keydown", Backquote, PlainKey(Backquote), FALSE),
              HelpShortcutEvent}
        \cup {ModeShortcutEvent(d) : d \in {"1", "2", "3", "4", "5", "6", "7"}}
        \cup NavKeyEvents

\* ---------------------------------------------------------------------------
\* C13  A key-down of a reserved UI-navigation key, and any key-down while
\*      focus is in an input, textarea or select, is a no-op, with performance
\*      mode enabled or not: the handler does not call preventDefault, makes
\*      no engine call and changes none of performance mode, current mode,
\*      pedal flag, pressedKeys, heldNotes, sustainedNotes, keyToNotes.
\*      (Program carries no call, prevented = FALSE and the current values of
\*      these variables, so the handler returning Program is that no-op.)
C13_PassThrough ==
    \A event \in KeyDownEvents :
        (event.key \in UI_NAVIGATION_KEYS \/ inInput)
            => handleKeyDown(Program, event) = Program

\* focus is in an input while performance mode is on and a chord is held by
\* "a": "d" went down and was not taken as a key press
C13_Witness ==
    /\ inInput
    /\ keyboardEnabled
    /\ isInitialized
    /\ KeyD \in physDown
    /\ pressedKeys = {"a"}
    /\ DOMAIN keyToNotes = {"a"}
    /\ DOMAIN heldNotes = {60, 64, 67}
    /\ Sounding = {PitchC4, PitchE4, PitchG4}
    /\ lastCalls = NoCalls

\* ---------------------------------------------------------------------------
\* C14  Shift + digit d, for every d in 1..7, sets the current mode to the
\*      d-th of (ionian, dorian, phrygian, lydian, mixolydian, aeolian,
\*      locrian), the traditional order, with performance mode enabled or
\*      disabled, and is never taken as a note: no engine call, and
\*      pressedKeys, heldNotes, sustainedNotes, keyToNotes (and performance
\*      mode and the pedal flag) stay as they are.  Stated of the handler in
\*      every reachable state, focus being outside inputs.
C14_ModeShortcut ==
    \A d \in 1..7 :
        \E digit \in {"1", "2", "3", "4", "5", "6", "7"} :
            /\ parseInt(digit) = d
            /\ getModesByTraditionalOrder[d].name =
                   <<"ionian", "dorian", "phrygian", "lydian",
                     "mixolydian", "aeolian", "locrian">>[d]
            /\ handleKeyDown(Program, ModeShortcutEvent(digit)) =
                   [Program EXCEPT !.currentMode = getModesByTraditionalOrder[d].name,
                                   !.prevented = TRUE]

\* Shift+7 went down while "a" was held in performance mode: the mode is
\* locrian and the C4 struck in ionian is still the only note held
C14_Witness ==
    /\ currentMode = "locrian"
    /\ keyboardEnabled
    /\ pressedKeys = {"a"}
    /\ keyToNotes = MapSet(EmptyMap, "a", {60})
    /\ DOMAIN heldNotes = {60}
    /\ Sounding = {PitchC4}
    /\ lastCalls = NoCalls

\* ---------------------------------------------------------------------------
\* C15  If attackNote throws during a key-down, the key-down leaves
\*      pressedKeys, heldNotes, sustainedNotes and keyToNotes exactly as they
\*      were before it, for a single note and for a chord failing on a later
\*      note.  The handler has already added the key to pressedKeys, and the
\*      chord notes attacked before the throwing call are already in
\*      heldNotes or sustainedNotes; nothing undoes either.
C15_FailedAttackChangesNothing ==
    [][AttackNoteThrows
          => UNCHANGED <<pressedKeys, heldNotes, sustainedNotes, keyToNotes>>]_vars

\* ---------------------------------------------------------------------------
\* Vocabulary of the theory-engine claims: the call that returned
ScaleReturned == theoryCall.fn = "generateScale" /\ theoryResult.returned

ChordsReturned == theoryCall.fn = "generateDiatonicChords" /\ theoryResult.returned

ChordReturned == theoryCall.fn = "buildChordFromDegree" /\ theoryResult.returned

IsNullChord(chord) == chord.quality = "null"

\* the note (name, octave) with the MIDI number it has
Pitch(name, octave, midiNumber) == [name |-> name, octave |-> octave, midiNumber |-> midiNumber]

\* a scale as the claim describes it: 7 notes, strictly ascending in MIDI
\* number, the first with the root's name and the given octave, the i-th
\* exactly intervals[i] semitones above the first
ScaleShape(notes, root, octave, intervals) ==
    /\ Len(notes) = 7
    /\ \A i, j \in 1..Len(notes) : i < j => notes[i].midiNumber < notes[j].midiNumber
    /\ notes[1].name = root
    /\ notes[1].octave = octave
    /\ \A i \in 1..Len(notes) :
           /\ i \in DOMAIN intervals
           /\ notes[i].midiNumber = notes[1].midiNumber + intervals[i]

C17_SevenDiatonicChords ==
    ChordsReturned
        => LET chords == theoryResult.value
               scale  == generateScale(theoryCall.root, theoryCall.mode, theoryCall.octave)
               defs   == MODES[theoryCall.mode].commonChords
           IN  /\ Len(chords) = 7
               /\ \A d \in 1..7 :
                      /\ d \in DOMAIN defs
                      /\ defs[d].degree = d
                      /\ chords[d].root = scale.notes[d]
                      /\ chords[d].quality = defs[d].quality
                      /\ chords[d].romanNumeral = defs[d].romanNumeral
                      /\ chords[d].function = defs[d].function

\* ---------------------------------------------------------------------------
\* C18  buildChordFromDegree returns null if and only if the degree is
\*      outside 1..7: a chord for every root, octave, mode and degree in 1..7,
\*      null for every other degree.  For locrian it returns null for the
\*      degrees 6 and 7, which MODES.locrian does not list.
C18_NullIffOutOfRange ==
    ChordReturned
        => (IsNullChord(theoryResult.value) <=> theoryCall.degree \notin 1..7)

\* ---------------------------------------------------------------------------
\* the chord generateDiatonicChords returns for the chord definition of a degree
DiatonicChordOfDegree(root, mode, degree, octave) ==
    LET defs == MODES[mode].commonChords
    IN  {generateDiatonicChords(root, mode, octave)[i] :
            i \in {j \in DOMAIN defs : defs[j].degree = degree}}

\* buildChordFromDegree agrees with generateDiatonicChords
C19_Equivalence ==
    (ChordReturned /\ ~IsNullChord(theoryResult.value))
        => DiatonicChordOfDegree(theoryCall.root, theoryCall.mode,
                                 theoryCall.degree, theoryCall.octave)
               = {theoryResult.value}

\* degree 1 of dorian is the minor triad on the root
C19_DorianTonic ==
    (ChordReturned /\ theoryCall.mode = "dorian" /\ theoryCall.degree = 1)
        => LET chord == theoryResult.value
               root  == createNote(theoryCall.root, theoryCall.octave)
           IN  /\ chord.quality = "minor"
               /\ chord.root = root
               /\ Len(chord.notes) = 3
               /\ chord.notes[1] = root
               /\ chord.notes[2].midiNumber = root.midiNumber + 3
               /\ chord.notes[3].midiNumber = root.midiNumber + 7

\* ('D', 'dorian', 1, 3) is D3, F3, A3
C19_DorianExample ==
    (ChordReturned /\ theoryCall.root = "D" /\ theoryCall.mode = "dorian"
                   /\ theoryCall.degree = 1 /\ theoryCall.octave = 3)
        => theoryResult.value.notes
               = <<Pitch("D", 3, 50), Pitch("F", 3, 53), Pitch("A", 3, 57)>>

Triad(chord, first, second, third, quality, romanNumeral) ==
    /\ chord.notes = <<first, second, third>>
    /\ chord.root = first
    /\ chord.quality = quality
    /\ chord.romanNumeral = romanNumeral
    /\ first.midiNumber < second.midiNumber
    /\ second.midiNumber < third.midiNumber

\* ---------------------------------------------------------------------------
\* C20  generateDiatonicChords('C', 'ionian', 4) returns, in this order, the
\*      triads C-E-G (I, tonic), D-F-A (ii), E-G-B (iii), F-A-C (IV,
\*      subdominant), G-B-D (V, dominant), A-C-E (vi) and B-D-F (vii
\*      diminished), each with ascending MIDI numbers from its root in octave 4.
C20_ChordsOfCMajor ==
    (ChordsReturned /\ theoryCall.root = "C" /\ theoryCall.mode = "ionian"
                    /\ theoryCall.octave = 4)
        => LET chords == theoryResult.value
           IN  /\ Len(chords) = 7
               /\ Triad(chords[1], Pitch("C", 4, 60), Pitch("E", 4, 64), Pitch("G", 4, 67),
                        "major", "I")
               /\ chords[1].function = "tonic"
               /\ Triad(chords[2], Pitch("D", 4, 62), Pitch("F", 4, 65), Pitch("A", 4, 69),
                        "minor", "ii")
               /\ Triad(chords[3], Pitch("E", 4, 64), Pitch("G", 4, 67), Pitch("B", 4, 71),
                        "minor", "iii")
               /\ Triad(chords[4], Pitch("F", 4, 65), Pitch("A", 4, 69), Pitch("C", 5, 72),
                        "major", "IV")
               /\ chords[4].function = "subdominant"
               /\ Triad(chords[5], Pitch("G", 4, 67), Pitch("B", 4, 71), Pitch("D", 5, 74),
                        "major", "V")
               /\ chords[5].function = "dominant"
               /\ Triad(chords[6], Pitch("A", 4, 69), Pitch("C", 5, 72), Pitch("E", 5, 76),
                        "minor", "vi")
               /\ Triad(chords[7], Pitch("B", 4, 71), Pitch("D", 5, 74), Pitch("F", 5, 77),
                        "diminished", "vii dim")

\* generateDiatonicChords('C', 'ionian', 4) has returned its seven chords
C20_Witness ==
    /\ ChordsReturned
    /\ theoryCall.root = "C"
    /\ theoryCall.mode = "ionian"
    /\ theoryCall.octave = 4
    /\ Len(theoryResult.value) = 7

\* ---------------------------------------------------------------------------
\* Vocabulary of the note claims
NoteCreated == theoryCall.fn = "createNote" /\ theoryResult.returned

NoteTransposed == theoryCall.fn = "transposeNote" /\ theoryResult.returned

\* the note a transposeNote call was given
TransposedNote == createNote(theoryCall.root, theoryCall.octave)

\* ---------------------------------------------------------------------------
\* C21  For every note p with a MIDI number in 0..127 and every semitone
\*      count n, positive or negative, transposeNote(transposeNote(p, n), -n)
\*      has the name, the octave and the MIDI number of p.  Where p + n falls
\*      below MIDI number 0 the first transposition finds no name for the
\*      negative remainder, and the way back starts from a different number.
C21_TransposeRoundTrip ==
    NoteTransposed
        => transposeNote(theoryResult.value, 0 - theoryCall.semitones) = TransposedNote

IsPitch(note) ==
    /\ \E i \in 1..Len(NOTE_NAMES) :
           /\ NOTE_NAMES[i] = note.name
           /\ note.midiNumber = (note.octave + 1) * 12 + (i - 1)

\* the notes the call has returned; the chords are those buildChord returned
\* to generateDiatonicChords and buildChordFromDegree
NotesReturned ==
    IF ~theoryResult.returned THEN {}
    ELSE CASE theoryCall.fn \in {"createNote", "transposeNote"} -> {theoryResult.value}
           [] theoryCall.fn = "generateScale" -> Range(theoryResult.value.notes)
           [] theoryCall.fn = "generateDiatonicChords" ->
                  UNION {Range(theoryResult.value[i].notes) \cup {theoryResult.value[i].root} :
                            i \in DOMAIN theoryResult.value}
           [] theoryCall.fn = "buildChordFromDegree" ->
                  IF IsNullChord(theoryResult.value) THEN {}
                  ELSE Range(theoryResult.value.notes) \cup {theoryResult.value.root}
           [] OTHER -> {}

\* ---------------------------------------------------------------------------
\* C22  Every note returned by createNote, transposeNote, generateScale and
\*      buildChord has midiNumber = (octave + 1) * 12 + the index of its name
\*      in C, C#, ..., B, and transposeNote(p, n).midiNumber = p.midiNumber + n.
\*      A note transposed below MIDI number 0 has no name among the twelve and
\*      a MIDI number other than p.midiNumber + n.
C22_MidiNumberOfPitch ==
    /\ \A note \in NotesReturned : IsPitch(note)
    /\ NoteTransposed
           => theoryResult.value.midiNumber = TransposedNote.midiNumber + theoryCall.semitones

\* ---------------------------------------------------------------------------
\* Vocabulary of the mode-analysis claims
ModesAnalysed == theoryCall.fn = "analyzeModeFromNotes" /\ theoryResult.returned

\* the pitch classes of the sounding notes
SoundingClasses == {m % 12 : m \in theoryCall.notes}

\* the pitch classes of the scale of a root and a mode
ScaleClasses(root, mode) ==
    {MODES[mode].intervals[i] + (IndexOf(NOTE_NAMES, root)) : i \in 1..7}

PitchClassesOf(S) == {x % 12 : x \in S}

\* the roots the call tests: the given one, or all twelve
TestedRoots == IF theoryCall.root = "undefined" THEN TheoryRoots ELSE {theoryCall.root}

FullMatchAt(root, mode) == SoundingClasses \subseteq PitchClassesOf(ScaleClasses(root, mode))

FullMatch(mode) == \E root \in TestedRoots : FullMatchAt(root, mode)

\* the score of a mode at a root, in units of 1 / (10 * |sounding classes|):
\* the share of the sounding classes that are in the scale, plus a bonus of
\* one tenth only when all of them are
ScoreAt(root, mode) ==
    10 * Cardinality(SoundingClasses \cap PitchClassesOf(ScaleClasses(root, mode)))
        + (IF FullMatchAt(root, mode) THEN Cardinality(SoundingClasses) ELSE 0)

BestScore(mode) ==
    LET scores == {ScoreAt(root, mode) : root \in TestedRoots}
    IN  CHOOSE best \in scores : \A score \in scores : score <= best

\* ---------------------------------------------------------------------------
\* C23  When possibleRoot is given and the sounding pitch classes are exactly
\*      the 7 pitch classes of that root's ionian scale, analyzeModeFromNotes
\*      returns ionian first, and ionian is the only mode that reaches the
\*      maximum score, a full match plus the bonus.
C23_IonianFirst ==
    (/\ ModesAnalysed
     /\ theoryCall.root # "undefined"
     /\ SoundingClasses = PitchClassesOf(ScaleClasses(theoryCall.root, "ionian")))
        => /\ theoryResult.value[1] = "ionian"
           /\ FullMatch("ionian")
           /\ BestScore("ionian") = 10 * 7 + 7
           /\ \A mode \in TheoryModes \ {"ionian"} :
                  ~FullMatch(mode) /\ BestScore(mode) < BestScore("ionian")

\* G3, A3, B3, C4, D4, E4 and F4, the seven pitch classes of C major,
\* analysed with root C
C23_Witness ==
    /\ ModesAnalysed
    /\ theoryCall.root = "C"
    /\ theoryCall.notes = {55, 57, 59, 60, 62, 64, 65}
    /\ theoryResult.value[1] = "ionian"

\* ---------------------------------------------------------------------------
\* C24  For every non-empty set of sounding notes analyzeModeFromNotes returns
\*      at most 3 mode names, pairwise distinct, ordered by non-increasing best
\*      score over the tested roots, the score being the share of the sounding
\*      pitch classes in the scale plus a bonus only for a full match; so no
\*      mode without a full match is ranked ahead of a mode with one.
C24_TopModes ==
    ModesAnalysed
        => LET result == theoryResult.value
           IN  /\ Len(result) <= 3
               /\ \A i \in 1..Len(result) : result[i] \in TheoryModes
               /\ \A i, j \in 1..Len(result) :
                      i < j => /\ result[i] # result[j]
                               /\ BestScore(result[i]) >= BestScore(result[j])
                               /\ FullMatch(result[j]) => FullMatch(result[i])
               /\ \A mode \in TheoryModes :
                      (FullMatch(mode) /\ \A i \in 1..Len(result) : result[i] # mode)
                          => \A i \in 1..Len(result) : FullMatch(result[i])

\* G3, A#3, C4 and E4 analysed with root C: mixolydian alone holds all four,
\* phrygian and aeolian are the first to hold three
C24_Witness ==
    /\ ModesAnalysed
    /\ theoryCall.root = "C"
    /\ theoryCall.notes = {55, 58, 60, 64}
    /\ theoryResult.value = <<"mixolydian", "phrygian", "aeolian">>
    /\ FullMatch("mixolydian")
    /\ ~FullMatch("phrygian")

\* ---------------------------------------------------------------------------
\* C25  Every mapping entry of the shipped scale-degree keyboard layout, the
\*      table the key handlers read while performance mode is enabled, has a
\*      scaleDegree in 1..7 and an octaveOffset in {-1, 0, +1}.  The entry of
\*      the key 'i' has the octaveOffset 2.
C25_LayoutRanges ==
    keyboardEnabled
        => \A i \in DOMAIN SCALE_DEGREE_LAYOUT.mappings :
               LET mapping == SCALE_DEGREE_LAYOUT.mappings[i]
               IN  /\ getKeyboardLayout(keyboardLayout).mappings[i] = mapping
                   /\ mapping.scaleDegree \in 1..7
                   /\ mapping.octaveOffset \in {0 - 1, 0, 1}

ModesByBrightnessReturned == theoryCall.fn = "getModesByBrightness" /\ theoryResult.returned

ModesByTraditionalOrderReturned ==
    theoryCall.fn = "getModesByTraditionalOrder" /\ theoryResult.returned

\* ---------------------------------------------------------------------------
\* C26  The brightness ranks of the 7 modes are exactly 1..7 with no ties;
\*      getModesByBrightness returns all 7 modes in strictly ascending rank;
\*      getModesByTraditionalOrder returns ionian, dorian, phrygian, lydian,
\*      mixolydian, aeolian, locrian in that order.
C26_ModeOrders ==
    /\ Cardinality(DOMAIN MODES) = 7
    /\ {MODES[mode].brightness : mode \in DOMAIN MODES} = 1..7
    /\ ModesByBrightnessReturned
           => LET list == theoryResult.value
              IN  /\ Len(list) = 7
                  /\ {list[i] : i \in 1..Len(list)} = {MODES[mode] : mode \in DOMAIN MODES}
                  /\ \A i, j \in 1..Len(list) : i < j => list[i].brightness < list[j].brightness
    /\ ModesByTraditionalOrderReturned
           => /\ Len(theoryResult.value) = 7
              /\ [i \in 1..7 |-> theoryResult.value[i].name]
                     = <<"ionian", "dorian", "phrygian", "lydian",
                         "mixolydian", "aeolian", "locrian">>
              /\ \A i \in 1..7 : theoryResult.value[i] = MODES[theoryResult.value[i].name]

\* getModesByBrightness has returned, locrian first and lydian last
C26_Witness ==
    /\ ModesByBrightnessReturned
    /\ theoryResult.value[1].name = "locrian"
    /\ theoryResult.value[7].name = "lydian"

\* ---------------------------------------------------------------------------
\* C27  In every reachable state, every pitch that has received attackNote
\*      from the key path with no later releaseNote is registered in
\*      heldNotes or sustainedNotes.
C27_SoundingIsTracked ==
    \A pitch \in Sounding : MidiOf(pitch) \in DOMAIN heldNotes \cup DOMAIN sustainedNotes

\* E4 sounds held by 'd' while the chord of Alt+'a' sounds sustained
C27_Witness ==
    /\ Sounding = {PitchC4, PitchE4, PitchG4}
    /\ DOMAIN heldNotes = {MidiOf(PitchE4)}
    /\ DOMAIN sustainedNotes = {MidiOf(PitchC4), MidiOf(PitchE4), MidiOf(PitchG4)}
    /\ strikes[PitchE4] = 2

\* ---------------------------------------------------------------------------
\* C28  In every reachable state, every MIDI number in heldNotes is tracked
\*      in keyToNotes for some key currently in pressedKeys; in particular,
\*      whenever no key is pressed, heldNotes is empty.  A held note that is
\*      also sustained when its key goes up stays in heldNotes.
C28_HeldIsPressed ==
    /\ \A midiNumber \in DOMAIN heldNotes :
           \E key \in pressedKeys :
               key \in DOMAIN keyToNotes /\ midiNumber \in keyToNotes[key]
    /\ pressedKeys = {} => heldNotes = EmptyMap

C29_EnvelopeIffPedal == isInitialized => ((envelope = "sustain") <=> sustainPedal)

C29_PedalUpAfterFlush ==
    [][(WindowBlur \/ (keyboardEnabled /\ ~keyboardEnabled')) => ~sustainPedal']_vars

\* ---------------------------------------------------------------------------
\* C29  In every reachable state with the engine initialized, the engine uses
\*      the sustain envelope if and only if sustainPedal is true; in
\*      particular sustainPedal is false after a window blur and after
\*      performance mode is disabled.  Neither the blur handler nor the
\*      cleanup of disabling sets sustainPedal, and the pedal sets it before
\*      the engine has a synth to switch.
C29_EnvelopeFollowsPedal == []C29_EnvelopeIffPedal /\ C29_PedalUpAfterFlush

\* ---------------------------------------------------------------------------
\* C30  With the pedal up throughout, a pitch keeps sounding as long as at
\*      least one pressed key resolved to it: when two pressed keys map to
\*      the same pitch ('a' and ','), the key-up of one issues no releaseNote
\*      for that pitch while the other is still down.  The key-up releases
\*      every held pitch tracked for its key, whatever other keys track it.
C30_SharedPitchKeepsSounding ==
    [][\A code \in SamePitchCodes, altKey \in BOOLEAN :
          \A key \in EventKeys(code, altKey) :
              ( /\ PlainKey(code) \in pressedKeys \cap DOMAIN keyToNotes
                /\ ~sustainPedal
                /\ KeyUp(code, altKey, key) )
                  => \A other \in (pressedKeys \ {PlainKey(code)}) \cap DOMAIN keyToNotes :
                         \A pitch \in Range(lastCalls'.releases) :
                             MidiOf(pitch) \notin keyToNotes[other]
      ]_vars

\* ---------------------------------------------------------------------------
\* C31  In every reachable state, keyToNotes has an entry only for a key that
\*      is in pressedKeys or that has at least one tracked note in
\*      sustainedNotes; so after both the key-up and the pedal-up of a
\*      sustained press, in either order, keyToNotes has no entry for the key.
C31_TrackedKeysArePressedOrSustained ==
    \A key \in DOMAIN keyToNotes :
        \/ key \in pressedKeys
        \/ keyToNotes[key] \cap DOMAIN sustainedNotes # {}

\* ---------------------------------------------------------------------------
\* C32  In every reachable state, sustainedNotes is non-empty only while
\*      sustainPedal is true.
C32_SustainedOnlyWithPedal ==
    sustainedNotes # EmptyMap => sustainPedal

\* E4 keeps sounding, sustained, after the key-up of 'd': the pedal is down
C32_Witness ==
    /\ DOMAIN sustainedNotes = {MidiOf(PitchE4)}
    /\ heldNotes = EmptyMap
    /\ pressedKeys = {}
    /\ physDown = {Space}
    /\ Sounding = {PitchE4}
    /\ sustainPedal

\* ---------------------------------------------------------------------------
\* C33  With the pedal up, key-up releases exactly the pitches that were
\*      recorded for that key at key-down, even if the root, mode or octave
\*      was changed while the key was down: after the release every recorded
\*      pitch has received releaseNote and none of them remains in heldNotes.
C33_KeyUpReleasesRecorded ==
    [][\A in \in KeyInputs :
          ( /\ keyboardEnabled
            /\ ~sustainPedal
            /\ PlainKey(in.code) \in pressedKeys \cap DOMAIN keyToNotes
            /\ KeyUp(in.code, in.altKey, in.key) )
          => LET recorded == keyToNotes[PlainKey(in.code)]
             IN  /\ {MidiOf(pitch) : pitch \in Range(lastCalls'.releases)}
                        = recorded \cap DOMAIN heldNotes
                 /\ \A midiNumber \in recorded : midiNumber \notin DOMAIN heldNotes'
                 /\ \A pitch \in Sounding' : MidiOf(pitch) \notin recorded
                 /\ PlainKey(in.code) \notin DOMAIN keyToNotes'
      ]_vars

\* E4, pressed on 'd' in C ionian at octave 4, has been released by the
\* key-up of 'd' with the page set to D locrian at octave 5
C33_Witness ==
    /\ currentRoot = "D"
    /\ currentMode = "locrian"
    /\ currentOctave = 5
    /\ lastCalls.releases = <<PitchE4>>
    /\ physDown = {}
    /\ NothingTracked
    /\ Sounding = {}

\* ---------------------------------------------------------------------------
\* C34  Auto-repeat suppression also holds for chord presses: when Alt is held
\*      and the browser reports an event.key different from the layout
\*      character, a repeated key-down of the same physical key without a
\*      key-up issues no further attackNote and does not change the tracking
\*      collections, in either pedal state.  The repeat test looks for
\*      event.key in pressedKeys, which holds the layout character.
C34_ChordRepeatIsNoOp ==
    [][\A in \in KeyInputs :
          ( /\ isInitialized
            /\ keyboardEnabled
            /\ in.altKey
            /\ in.key = AltChar(in.code)
            /\ in.code \in physDown
            /\ PlainKey(in.code) \in pressedKeys \cap DOMAIN keyToNotes
            /\ keyToNotes[PlainKey(in.code)]
                   = {MidiOf(pitch) : pitch \in Range(ChordOfKey(in.code))}
            /\ KeyDown(in.code, in.altKey, in.key) )
          => /\ lastCalls'.attacks = <<>>
             /\ UNCHANGED <<pressedKeys, heldNotes, sustainedNotes, keyToNotes>>
      ]_vars

\* ---------------------------------------------------------------------------
\* C35  The note-off callback of a click, fired 500 ms after it, only clears
\*      the highlight of its own play: it never takes out of activeNotes a
\*      MIDI number that is held or sustained by the keys when it fires, or
\*      that a later click has highlighted again with its own timer still
\*      pending.  The callback calls removeActiveNote whatever else keeps the
\*      key highlighted.
C35_TimerSparesLiveHighlights ==
    [][\A midiNumber \in DOMAIN noteOffTimers :
          ( /\ NoteOffTimer
            /\ StrikesOf(noteOffTimers', midiNumber) = noteOffTimers[midiNumber] - 1
            /\ midiNumber \in activeNotes
            /\ \/ midiNumber \in DOMAIN heldNotes \cup DOMAIN sustainedNotes
               \/ midiNumber \in DOMAIN noteOffTimers' )
          => midiNumber \in activeNotes'
      ]_vars

\* ---------------------------------------------------------------------------
\* C36  Every highlighted MIDI number is in heldNotes or in sustainedNotes, or
\*      belongs to a click whose timer is pending; so leaving performance mode
\*      with notes held or sustained takes their highlights away, as a window
\*      blur does.  The cleanup that runs when performance mode is left
\*      releases the notes and clears the collections without a
\*      removeActiveNote call.
C36_HighlightsAreLive ==
    highlightsFollowed
        => activeNotes \subseteq
               DOMAIN heldNotes \cup DOMAIN sustainedNotes \cup DOMAIN noteOffTimers

\* ---------------------------------------------------------------------------
\* C37  However initialize() calls overlap (the first click of the page and
\*      the toggle key, both before the audio context has started), the synth
\*      and the effects chain are constructed once and the second call has no
\*      effect.  initialize() tests isInitialized, which is set only after its
\*      two awaits: a call made meanwhile constructs them again.
C37_ConstructedOnce == [][ToneStarted => ~synth]_vars

=============================================================================
